---- MODULE Spec2Model ----
(***************************************************************************)
(* Order lifecycle and settlement of the malewa-fac backend: createOrder,  *)
(* the order status handlers (confirm, PATCH status, assign-mission), the  *)
(* delivery mission handlers (accept, PATCH status), the settlement       *)
(* function ensureMerchantAndCourierTransactions, the pricing preview, the *)
(* merchant's order listing, and the payment handlers with the webhooks of *)
(* Stripe, Labyrinthe and Moko.                                            *)
(*                                                                         *)
(* Every HTTP handler is a process in a request slot.  A handler's step is *)
(* one store operation (a prisma call, or one prisma.$transaction) with    *)
(* the synchronous code that follows it; between two steps of a handler    *)
(* the steps of the other handlers may run.                                *)
(***************************************************************************)
EXTENDS Integers, Sequences, FiniteSets, TLC

VARIABLES orders, missions, transactions, vouchers, settings, sessions,
          payments, promo, req, response, outbox

vars == <<orders, missions, transactions, vouchers, settings, sessions,
          payments, promo, req, response, outbox>>

----------------------------------------------------------------------------
(* Bounds of the model. *)

\* Orders that the clients place where the whole lifecycle is followed.
MaxOrders == 1
\* Orders that the clients place where order creation alone is followed.
MaxCreated == 2
\* Request slots: the number of handlers that can be in flight together.
MaxReq == 2
\* The largest quantity of a cart line where the pricing is followed.
MaxQty == 2
\* Payments that are created.
MaxPayments == 2
\* Orders that the clients place where the free trial is followed.
MaxPlaced == 3

Reqs == 1..MaxReq

----------------------------------------------------------------------------
(* Seed data of the store: users, restaurants, dishes, settings. *)

\* Customer accounts; NoUser stands for a courierUserId of NULL.
Customers == {1, 2}
\* The users with the courier role.
Couriers == {1, 2}
NoUser == 0

\* dish id -> restaurant and catalog price; dish 3 is another restaurant's.
Dishes == <<[restaurantId |-> 1, price |-> 3000],
            [restaurantId |-> 1, price |-> 4500],
            [restaurantId |-> 2, price |-> 2000]>>
Restaurants == {1, 2}

\* The keys of the Setting table that the fee computations read.
SettingKeys == {"SERVICE_FEE", "CAMPUS_DELIVERY_FEE", "OFF_CAMPUS_RATE_PER_KM",
                "OFF_CAMPUS_MIN_FEE"}
\* The fallbacks that getFees gives getSetting.
SERVICE_FEE == 1000
CAMPUS_DELIVERY_FEE == 1000
OFF_CAMPUS_RATE_PER_KM == 500
OFF_CAMPUS_MIN_FEE == 2000
\* The discount of the vouchers that promo points mint.
VOUCHER_DISCOUNT_PERCENT == 10
\* The fixed earning of a mission created by assign-mission.
MissionEarning == 2000

OrderStatuses == {"pending_confirmation", "received", "preparing", "ready",
                  "delivering", "delivered", "rejected"}
MissionStatuses == {"available", "accepted", "picked", "enroute", "delivered"}

----------------------------------------------------------------------------
(* Pure functions. *)

Max(a, b) == IF a >= b THEN a ELSE b

\* Math.round of n/d for n >= 0, d > 0 (round half up).
RoundDiv(n, d) == (2 * n + d) \div (2 * d)

\* getSetting: the value of the row of key; the fallback when there is none.
getSetting(key, fallback) ==
  IF settings[key] = <<>> THEN fallback ELSE settings[key][1]

\* A distance is <<>> when the caller gave none, and <<n, d>> for n/d km.
\* Math.round(km * rate).
roundKmTimes(km, rate) == RoundDiv(km[1] * rate, km[2])

\* getFees: params.km ?? 1 is billed as it is given.
getFees(method, km) ==
  LET k == IF km = <<>> THEN <<1, 1>> ELSE km
      deliveryFee ==
        IF method = "pickup" THEN 0
        ELSE IF method = "campus"
        THEN getSetting("CAMPUS_DELIVERY_FEE", CAMPUS_DELIVERY_FEE)
        ELSE Max(getSetting("OFF_CAMPUS_MIN_FEE", OFF_CAMPUS_MIN_FEE),
                 roundKmTimes(k, getSetting("OFF_CAMPUS_RATE_PER_KM",
                                            OFF_CAMPUS_RATE_PER_KM)))
  IN  [SERVICE_FEE |-> getSetting("SERVICE_FEE", SERVICE_FEE),
       deliveryFee |-> deliveryFee]

\* computeCommission: SERVICE_FEE + Math.round(deliveryFee * 0.1).
computeCommission(deliveryFee) ==
  getSetting("SERVICE_FEE", SERVICE_FEE) + RoundDiv(deliveryFee, 10)

\* A table that also lets a ready order go back to preparing.
allowedBackwards(status) ==
  CASE status = "pending_confirmation" -> {"received", "rejected"}
    [] status = "received" -> {"preparing", "rejected"}
    [] status = "preparing" -> {"ready", "rejected"}
    [] status = "ready" -> {"delivering", "preparing"}
    [] status = "delivering" -> {"delivered"}
    [] OTHER -> {}

\* The transition table of PATCH orders/:id/status.
allowed(status) ==
  CASE status = "pending_confirmation" -> {"received", "rejected"}
    [] status = "received" -> {"preparing", "rejected"}
    [] status = "preparing" -> {"ready", "rejected"}
    [] status = "ready" -> {"delivering"}
    [] status = "delivering" -> {"delivered"}
    [] OTHER -> {}

\* The transition table of PATCH missions/:id/status.
allowedMission(status) ==
  CASE status = "available" -> {"accepted"}
    [] status = "accepted" -> {"picked"}
    [] status = "picked" -> {"enroute"}
    [] status = "enroute" -> {"delivered"}
    [] OTHER -> {}

\* An AppError carries statusCode; errors thrown by the store carry neither.
AppError(statusCode) == [statusCode |-> statusCode, status |-> 0]
StoreError == [statusCode |-> 0, status |-> 0]

\* errorHandler answers err.status || 500.
errorHandler(err) == IF err.status # 0 THEN err.status ELSE 500

----------------------------------------------------------------------------
(* createOrder: validation and pricing. *)

\* A pricing that takes every override that is supplied.
finalPriceAnyOverride(item) ==
  IF item.customPrice # 0 THEN item.customPrice
  ELSE Dishes[item.dishId].price

\* The effective unit price of a line: the custom price when it is given
\* (non-zero) and greater than the catalog price.
finalPrice(item) ==
  LET price == Dishes[item.dishId].price
  IN  IF item.customPrice # 0 /\ item.customPrice > price
      THEN item.customPrice ELSE price

RECURSIVE subtotalOf(_)
subtotalOf(items) ==
  IF items = <<>> THEN 0
  ELSE finalPrice(Head(items)) * Head(items).qty + subtotalOf(Tail(items))

\* orderItemsData: the line snapshots stored with the order.
orderItemsData(items) ==
  [i \in DOMAIN items |->
     [dishId |-> items[i].dishId,
      price |-> Dishes[items[i].dishId].price,
      customPrice |-> IF finalPrice(items[i]) # Dishes[items[i].dishId].price
                      THEN finalPrice(items[i]) ELSE 0,
      qty |-> items[i].qty]]

\* The first invalid line of the cart, as the loop meets it: <<>> when none.
RECURSIVE itemsError(_, _)
itemsError(items, restaurantId) ==
  IF items = <<>> THEN <<>>
  ELSE IF Head(items).dishId \notin DOMAIN Dishes THEN <<AppError(400)>>
  ELSE IF Dishes[Head(items).dishId].restaurantId # restaurantId
       THEN <<AppError(400)>>
  ELSE itemsError(Tail(items), restaurantId)

\* What createOrder throws before it writes: <<>> when the input is valid.
createOrderError(input) ==
  IF input.customerUserId = NoUser THEN <<AppError(400)>>
  ELSE IF input.customerUserId \notin Customers THEN <<AppError(404)>>
  ELSE IF input.restaurantId \notin Restaurants THEN <<AppError(404)>>
  ELSE itemsError(input.items, input.restaurantId)

totalBeforeDiscount(subtotal, serviceFee, deliveryFee) ==
  subtotal + serviceFee + deliveryFee

\* The Order row written by the $transaction of createOrder.
newOrder(input) ==
  LET subtotal == subtotalOf(input.items)
      fees == getFees(input.deliveryMethod, input.km)
  IN  [customerUserId |-> input.customerUserId,
       restaurantId |-> input.restaurantId,
       items |-> orderItemsData(input.items),
       subtotal |-> subtotal,
       serviceFee |-> fees.SERVICE_FEE,
       deliveryFee |-> fees.deliveryFee,
       discount |-> 0,
       total |-> totalBeforeDiscount(subtotal, fees.SERVICE_FEE, fees.deliveryFee),
       deliveryMethod |-> input.deliveryMethod,
       estimatedDistanceKm |-> input.km,
       voucherUsed |-> input.voucherCode,
       status |-> "pending_confirmation"]

\* The codes run over the last 6 digits of the clock's milliseconds.
CODE_RANGE == 1000000

\* `ORD-${Date.now().toString().slice(-6)}`.
orderCode(now) == now % CODE_RANGE

\* The Order row of an order created at now: its code and createdAt.
stamp(order, now) == order @@ [code |-> orderCode(now), createdAt |-> now]

\* The unique index Order_code_key: a stored order has the code.
codeTaken(code) == \E o \in DOMAIN orders : orders[o].code = code

\* A merchant Transaction that records a commission and pays out the subtotal.
initialTransactionGross(orderId, subtotal) ==
  [orderId |-> orderId, beneficiary |-> "merchant", amount |-> subtotal,
   commission |-> RoundDiv(subtotal, 10), netAmount |-> subtotal,
   status |-> "pending"]

\* The merchant Transaction written with the order (commission defaults to 0).
initialTransaction(orderId, subtotal) ==
  [orderId |-> orderId, beneficiary |-> "merchant", amount |-> subtotal,
   commission |-> 0, netAmount |-> subtotal, status |-> "pending"]

\* applyVoucherToOrder: Math.round(orderTotal * discountPercent / 100).
voucherDiscount(orderTotal, discountPercent) ==
  RoundDiv(orderTotal * discountPercent, 100)

----------------------------------------------------------------------------
(* Inputs of the handlers. *)

\* Carts: two dishes; a custom price above, and one below, the catalog
\* price; a dish of another restaurant; a dish that does not exist.
Cart1 == <<[dishId |-> 1, qty |-> 2, customPrice |-> 0],
           [dishId |-> 2, qty |-> 1, customPrice |-> 0]>>
Cart2 == <<[dishId |-> 1, qty |-> 1, customPrice |-> 3500]>>
Cart3 == <<[dishId |-> 1, qty |-> 1, customPrice |-> 2500]>>
Cart4 == <<[dishId |-> 3, qty |-> 1, customPrice |-> 0]>>
Cart5 == <<[dishId |-> 4, qty |-> 1, customPrice |-> 0]>>

Input(customerUserId, restaurantId, items, deliveryMethod, km, voucherCode) ==
  [customerUserId |-> customerUserId, restaurantId |-> restaurantId,
   items |-> items, deliveryMethod |-> deliveryMethod, km |-> km,
   voucherCode |-> voucherCode, promoCode |-> ""]

\* The requests POST orders is given: valid ones, and one for each error.
OrderInputs ==
  { Input(1, 1, Cart1, "campus", <<>>, ""),
    Input(1, 1, Cart3, "pickup", <<>>, ""),
    Input(1, 1, Cart2, "offcampus", <<5, 1>>, "V1"),
    Input(2, 1, Cart3, "offcampus", <<>>, "V1"),
    Input(1, 1, Cart3, "pickup", <<>>, "V2"),
    Input(1, 1, Cart1, "campus", <<>>, "V0"),
    Input(NoUser, 1, Cart1, "campus", <<>>, ""),
    Input(3, 1, Cart1, "campus", <<>>, ""),
    Input(1, 3, Cart1, "campus", <<>>, ""),
    Input(1, 1, Cart4, "campus", <<>>, ""),
    Input(1, 1, Cart5, "campus", <<>>, "") }

\* POST orders bodies that carry a promo code: of another customer, in
\* lower case, the customer's own, an inactive one, an unknown one.
PromoInput(customerUserId, promoCode) ==
  [Input(customerUserId, 1, Cart3, "pickup", <<>>, "") EXCEPT
     !.promoCode = promoCode]

PromoInputs ==
  { PromoInput(2, "P1"), PromoInput(2, "p1"), PromoInput(1, "P1"),
    PromoInput(2, "P2"), PromoInput(2, "P0") }

\* The override prices a line of dish d is sent with: none (0), one below
\* the catalog price, the catalog price itself, one above it.
Overrides(d) ==
  {0, Dishes[d].price - 500, Dishes[d].price, Dishes[d].price + 500}

\* The lines a cart of restaurant 1 may hold for dish d.
Lines(d) ==
  {[dishId |-> d, qty |-> q, customPrice |-> c] : q \in 1..MaxQty, c \in Overrides(d)}

\* POST orders bodies with carts of one or two lines, with and without
\* override prices.
PriceInputs ==
  {Input(1, 1, <<l>>, "pickup", <<>>, "") : l \in Lines(1) \cup Lines(2)}
  \cup {Input(1, 1, <<l, m>>, "pickup", <<>>, "") : l \in Lines(1), m \in Lines(2)}

\* Order and mission ids a request may name: the stored ones and one more.
OrderIds == 1..(Len(orders) + 1)
MissionIds == 1..(Len(missions) + 1)

----------------------------------------------------------------------------
(* Request slots and responses. *)

Idle == [op |-> "none", pc |-> "idle", id |-> 0, arg |-> "", user |-> NoUser,
         snap |-> ""]

NoResponse == [op |-> "none", id |-> 0, arg |-> "", user |-> NoUser, code |-> 0,
               body |-> <<>>]

Free(r) == req[r].pc = "idle"

\* No answer is on its way out: an answer leaves the server (Sent) before
\* any handler takes its next step.
Quiet == response = NoResponse

\* The handler of slot r, one of ops, is at one of pcs.
Runs(r, ops, pcs) == Quiet /\ req[r].op \in ops /\ req[r].pc \in pcs

\* A request is taken by the first free slot (the slots are interchangeable);
\* when the handlers run one after the other, only when every slot is free.
Takes(r, p) ==
  /\ Quiet
  /\ Free(r)
  /\ \A q \in Reqs : q < r => ~Free(q)
  /\ p.serial => \A q \in Reqs : Free(q)

\* The request of slot r, now at pc.
At(r, op, pc, id, arg, user, snap) ==
  /\ req' = [req EXCEPT ![r] = [op |-> op, pc |-> pc, id |-> id, arg |-> arg,
                                user |-> user, snap |-> snap]]
  /\ response' = NoResponse /\ outbox' = {}

\* The handler of slot r answers with HTTP status code and the JSON body,
\* having sent the notifications and SMS msgs, and ends.
Reply(r, op, id, arg, user, code, body, msgs) ==
  /\ req' = [req EXCEPT ![r] = Idle]
  /\ response' = [op |-> op, id |-> id, arg |-> arg, user |-> user, code |-> code,
                  body |-> body]
  /\ outbox' = msgs

\* restaurant.ownerUserId: restaurant k is owned by merchant k.
ownerUserId(restaurantId) == restaurantId

\* A notification row written by notify, or an SMS (type "sms"), for the
\* user of a role about an order; the dispatchers are addressed together.
Msg(role, user, type, orderId) ==
  [role |-> role, user |-> user, type |-> type, orderId |-> orderId]

\* The notifications and SMS a handler sends around its answer: none with an
\* error answer; id is the order's id, for the mission handlers the mission's.
notifications(op, id, arg, user, code) ==
  IF op = "createOrder" /\ code = 201
  THEN {Msg("dispatcher", NoUser, "sms", id),
        Msg("customer", user, "order.created", id)}
  ELSE IF op = "confirm" /\ code = 200
  THEN {Msg("merchant", ownerUserId(orders[id].restaurantId),
            "order.new_for_restaurant", id),
        Msg("merchant", ownerUserId(orders[id].restaurantId), "sms", id)}
  ELSE IF op = "patchOrder" /\ code = 200
  THEN {Msg("customer", orders[id].customerUserId, "order.status", id),
        Msg("merchant", ownerUserId(orders[id].restaurantId),
            "order.status_restaurant", id)}
       \cup (IF arg = "delivered"
             THEN {Msg("customer", orders[id].customerUserId, "sms", id)}
             ELSE {})
  ELSE IF op = "assignMission" /\ code = 201
  THEN {Msg("customer", orders[id].customerUserId, "mission.created", id),
        Msg("courier", NoUser, "sms", id)}
  ELSE IF op = "accept" /\ code = 200
  THEN LET o == missions[id].orderId
       IN  {Msg("customer", orders[o].customerUserId, "mission.accepted", o),
            Msg("merchant", ownerUserId(orders[o].restaurantId),
                "mission.accepted_restaurant", o)}
  ELSE IF op = "patchMission" /\ code = 200
  THEN LET o == missions[id].orderId
       IN  {Msg("customer", orders[o].customerUserId, "mission.status", o)}
           \cup (IF arg = "delivered"
                 THEN {Msg("customer", orders[o].customerUserId, "sms", o),
                       Msg("merchant", ownerUserId(orders[o].restaurantId),
                           "order.delivered", o)}
                 ELSE {})
  ELSE {}

\* The handler of slot r answers with HTTP status code and ends.
Answer(r, op, id, arg, user, code) ==
  Reply(r, op, id, arg, user, code, <<>>, notifications(op, id, arg, user, code))

\* The handler of slot r goes on to pc.
Goto(r, pc) ==
  /\ req' = [req EXCEPT ![r].pc = pc]
  /\ response' = NoResponse /\ outbox' = {}

AnswerOf(r, code) ==
  Answer(r, req[r].op, req[r].id, req[r].arg, req[r].user, code)

\* The promo codes: P1 of customer 1 is active, P2 of customer 1 is not.  A
\* code that was applied n times holds n points and n PromoCodeUsage rows,
\* and earned its owner a voucher at each tenth point (minted counts the
\* DiscountVoucher rows created for it; their codes are random).
POINTS_FOR_VOUCHER == 10

PromoCodes(n) ==
  [c \in {"P1", "P2"} |->
     [ownerUserId |-> 1, isActive |-> (c = "P1"),
      points |-> IF c = "P1" THEN n ELSE 0,
      usages |-> IF c = "P1" THEN n ELSE 0,
      minted |-> IF c = "P1" THEN n \div POINTS_FOR_VOUCHER ELSE 0]]

\* code.toUpperCase() on the promo codes a request may carry.
toUpperCase(code) ==
  IF code = "p1" THEN "P1" ELSE IF code = "p2" THEN "P2" ELSE code

Init ==
  /\ orders = <<>>
  /\ missions = <<>>
  /\ transactions = <<>>
  /\ vouchers = [c \in {"V1", "V2"} |->
                   [status |-> "active", ownerUserId |-> 1, sharedToUserId |-> NoUser,
                    discountPercent |-> VOUCHER_DISCOUNT_PERCENT,
                    expired |-> (c = "V2"),
                    usedByUserId |-> NoUser, usedOnOrderId |-> 0]]
  /\ settings = [k \in SettingKeys |-> <<>>]
  /\ sessions = {}
  /\ payments = <<>>
  /\ promo = PromoCodes(0)
  /\ req = [r \in Reqs |-> Idle]
  /\ response = NoResponse
  /\ outbox = {}

----------------------------------------------------------------------------
(* POST orders: createOrder. *)

\* Date.now() when the order is created: one of the profile's clock values
\* that is not before an order already stored; for a profile without clock
\* values the orders are created a millisecond apart.
Now(p) ==
  IF p.times = {} THEN {Len(orders) + 1}
  ELSE {t \in p.times : \A o \in DOMAIN orders : orders[o].createdAt <= t}

\* Validation, pricing and the $transaction that writes the order, its items
\* and its merchant Transaction; an AppError reaches errorHandler.
CreateOrder(r, p) ==
  /\ Takes(r, p)
  /\ \E input \in p.inputs, now \in Now(p) :
       LET err == createOrderError(input)
           id == Len(orders) + 1
           o == stamp(newOrder(input), now)
       IN  IF err # <<>>
           THEN /\ p.rejects
                /\ Answer(r, "createOrder", 0, "", input.customerUserId,
                          errorHandler(err[1]))
                /\ UNCHANGED <<orders, missions, transactions, vouchers>>
           ELSE IF codeTaken(o.code)
           THEN /\ Len(orders) < p.maxOrders
                /\ Answer(r, "createOrder", 0, "", input.customerUserId,
                          errorHandler(StoreError))
                /\ UNCHANGED <<orders, missions, transactions, vouchers>>
           ELSE /\ Len(orders) < p.maxOrders
                /\ orders' = Append(orders, o)
                /\ transactions' =
                     Append(transactions, initialTransaction(id, o.subtotal))
                /\ IF input.promoCode # ""
                   THEN At(r, "createOrder", "promo_find", id,
                              input.voucherCode, input.customerUserId,
                              [total |-> o.total, discount |-> 0,
                               promoCode |-> input.promoCode, points |-> 0])
                   ELSE IF input.voucherCode # ""
                   THEN At(r, "createOrder", "voucher_find", id,
                              input.voucherCode, input.customerUserId,
                              [total |-> o.total, discount |-> 0])
                   ELSE Answer(r, "createOrder", id, "", input.customerUserId, 201)
                /\ UNCHANGED <<missions, vouchers>>
  /\ UNCHANGED <<settings, sessions, payments, promo>>

\* A write that fails after the order row is stored and keeps the row.
CreateOrderTxPartial(r, p) ==
  /\ Takes(r, p)
  /\ p.rejects
  /\ Len(orders) < p.maxOrders
  /\ \E input \in p.inputs :
       /\ createOrderError(input) = <<>>
       /\ orders' = Append(orders, stamp(newOrder(input), Len(orders) + 1))
       /\ Answer(r, "createOrder", 0, "", input.customerUserId,
                 errorHandler(StoreError))
  /\ UNCHANGED <<missions, transactions, vouchers>>
  /\ UNCHANGED <<settings, sessions, payments, promo>>

\* The $transaction of createOrder throws: nothing is persisted.
CreateOrderTxFail(r, p) ==
  /\ Takes(r, p)
  /\ p.rejects
  /\ Len(orders) < p.maxOrders
  /\ \E input \in p.inputs :
       /\ createOrderError(input) = <<>>
       /\ Answer(r, "createOrder", 0, "", input.customerUserId,
                 errorHandler(StoreError))
  /\ UNCHANGED <<orders, missions, transactions, vouchers>>
  /\ UNCHANGED <<settings, sessions, payments, promo>>

\* createOrder after applyPromoCodeToOrder returned or threw: the voucher
\* step when the request carries a voucher code, the answer otherwise; msgs
\* are the notifications of the promo step.
AfterPromo(r, msgs) ==
  IF req[r].arg # ""
  THEN /\ req' = [req EXCEPT ![r].pc = "voucher_find",
                    ![r].snap = [total |-> req[r].snap.total, discount |-> 0]]
       /\ response' = NoResponse
       /\ outbox' = msgs
  ELSE Reply(r, "createOrder", req[r].id, "", req[r].user, 201, <<>>,
             msgs \cup notifications("createOrder", req[r].id, "", req[r].user, 201))

\* applyPromoCodeToOrder: findUnique and the checks on the promo code read.
PromoFind(r) ==
  /\ Runs(r, {"createOrder"}, {"promo_find"})
  /\ LET code == toUpperCase(req[r].snap.promoCode)
     IN  IF \/ code \notin DOMAIN promo
            \/ ~promo[code].isActive
            \/ promo[code].ownerUserId = req[r].user
         THEN AfterPromo(r, {})
         ELSE /\ req' = [req EXCEPT ![r].pc = "promo_usage",
                           ![r].snap.promoCode = code,
                           ![r].snap.points = promo[code].points]
              /\ response' = NoResponse /\ outbox' = {}
  /\ UNCHANGED <<orders, missions, transactions, vouchers>>
  /\ UNCHANGED <<settings, sessions, payments, promo>>

\* applyPromoCodeToOrder: promoCodeUsage.create.
PromoUsage(r) ==
  /\ Runs(r, {"createOrder"}, {"promo_usage"})
  /\ promo' = [promo EXCEPT ![req[r].snap.promoCode].usages = @ + 1]
  /\ Goto(r, "promo_points")
  /\ UNCHANGED <<orders, missions, transactions, vouchers>>
  /\ UNCHANGED <<settings, sessions, payments>>

\* applyPromoCodeToOrder: promoCode.update writes the points read by
\* findUnique plus one; a tenth point earns the owner a voucher.
PromoPoints(r) ==
  /\ Runs(r, {"createOrder"}, {"promo_points"})
  /\ LET code == req[r].snap.promoCode
         newPoints == req[r].snap.points + 1
     IN  /\ promo' = [promo EXCEPT ![code].points = newPoints]
         /\ IF newPoints % POINTS_FOR_VOUCHER = 0
            THEN Goto(r, "promo_mint")
            ELSE AfterPromo(r, {Msg("customer", promo[code].ownerUserId,
                                    "promo.point.earned", 0)})
  /\ UNCHANGED <<orders, missions, transactions, vouchers>>
  /\ UNCHANGED <<settings, sessions, payments>>

\* applyPromoCodeToOrder: discountVoucher.create for the owner.
PromoMint(r) ==
  /\ Runs(r, {"createOrder"}, {"promo_mint"})
  /\ LET code == req[r].snap.promoCode
     IN  /\ promo' = [promo EXCEPT ![code].minted = @ + 1]
         /\ AfterPromo(r, {Msg("customer", promo[code].ownerUserId,
                               "voucher.earned", 0)})
  /\ UNCHANGED <<orders, missions, transactions, vouchers>>
  /\ UNCHANGED <<settings, sessions, payments>>

\* A store call of the promo step throws: createOrder catches and logs it.
PromoStepFail(r) ==
  /\ Runs(r, {"createOrder"},
          {"promo_find", "promo_usage", "promo_points", "promo_mint"})
  /\ AfterPromo(r, {})
  /\ UNCHANGED <<orders, missions, transactions, vouchers>>
  /\ UNCHANGED <<settings, sessions, payments, promo>>

\* A check of the voucher that does not look at its status.
VoucherFindAnyStatus(r) ==
  /\ Runs(r, {"createOrder"}, {"voucher_find"})
  /\ LET code == req[r].arg
         ok == /\ code \in DOMAIN vouchers
               /\ \/ vouchers[code].ownerUserId = req[r].user
                  \/ vouchers[code].sharedToUserId = req[r].user
     IN  IF ~ok
         THEN AnswerOf(r, 201)
         ELSE IF vouchers[code].expired
         THEN Goto(r, "voucher_expire")
         ELSE /\ req' = [req EXCEPT ![r].pc = "voucher_use",
                           ![r].snap.discount =
                              voucherDiscount(req[r].snap.total,
                                              vouchers[code].discountPercent)]
              /\ response' = NoResponse /\ outbox' = {}
  /\ UNCHANGED <<orders, missions, transactions, vouchers>>
  /\ UNCHANGED <<settings, sessions, payments, promo>>

\* A check of the voucher that does not look at who applies it.
VoucherFindAnyUser(r) ==
  /\ Runs(r, {"createOrder"}, {"voucher_find"})
  /\ LET code == req[r].arg
         ok == /\ code \in DOMAIN vouchers
               /\ vouchers[code].status = "active"
     IN  IF ~ok
         THEN AnswerOf(r, 201)
         ELSE IF vouchers[code].expired
         THEN Goto(r, "voucher_expire")
         ELSE /\ req' = [req EXCEPT ![r].pc = "voucher_use",
                           ![r].snap.discount =
                              voucherDiscount(req[r].snap.total,
                                              vouchers[code].discountPercent)]
              /\ response' = NoResponse /\ outbox' = {}
  /\ UNCHANGED <<orders, missions, transactions, vouchers>>
  /\ UNCHANGED <<settings, sessions, payments, promo>>

\* applyVoucherToOrder: findUnique and the checks on the voucher read.
VoucherFind(r) ==
  /\ Runs(r, {"createOrder"}, {"voucher_find"})
  /\ LET code == req[r].arg
         ok == /\ code \in DOMAIN vouchers
               /\ vouchers[code].status = "active"
               /\ \/ vouchers[code].ownerUserId = req[r].user
                  \/ vouchers[code].sharedToUserId = req[r].user
     IN  IF ~ok
         THEN AnswerOf(r, 201)
         ELSE IF vouchers[code].expired
         THEN Goto(r, "voucher_expire")
         ELSE /\ req' = [req EXCEPT ![r].pc = "voucher_use",
                           ![r].snap.discount =
                              voucherDiscount(req[r].snap.total,
                                              vouchers[code].discountPercent)]
              /\ response' = NoResponse /\ outbox' = {}
  /\ UNCHANGED <<orders, missions, transactions, vouchers>>
  /\ UNCHANGED <<settings, sessions, payments, promo>>

\* applyVoucherToOrder: an expired voucher is flipped to expired.
VoucherExpire(r) ==
  /\ Runs(r, {"createOrder"}, {"voucher_expire"})
  /\ vouchers' = [vouchers EXCEPT ![req[r].arg].status = "expired"]
  /\ AnswerOf(r, 201)
  /\ UNCHANGED <<orders, missions, transactions>>
  /\ UNCHANGED <<settings, sessions, payments, promo>>

\* applyVoucherToOrder: the voucher is marked used on this order.
VoucherUse(r) ==
  /\ Runs(r, {"createOrder"}, {"voucher_use"})
  /\ vouchers' = [vouchers EXCEPT ![req[r].arg].status = "used",
                                  ![req[r].arg].usedByUserId = req[r].user,
                                  ![req[r].arg].usedOnOrderId = req[r].id]
  /\ IF req[r].snap.discount # 0
     THEN Goto(r, "discount")
     ELSE AnswerOf(r, 201)
  /\ UNCHANGED <<orders, missions, transactions>>
  /\ UNCHANGED <<settings, sessions, payments, promo>>

\* An update that writes the discount and leaves the total as it was.
newTotalKept(total, discount) == total

\* createOrder: total: totalBeforeDiscount - discount.
newTotal(total, discount) == total - discount

\* createOrder: the order is updated with the discount and the new total.
OrderDiscount(r) ==
  /\ Runs(r, {"createOrder"}, {"discount"})
  /\ orders' = [orders EXCEPT
                  ![req[r].id].discount = req[r].snap.discount,
                  ![req[r].id].total =
                     newTotal(req[r].snap.total, req[r].snap.discount)]
  /\ AnswerOf(r, 201)
  /\ UNCHANGED <<missions, transactions, vouchers>>
  /\ UNCHANGED <<settings, sessions, payments, promo>>

\* A failure of the voucher step that reaches the caller.
VoucherStepFailSurfaced(r) ==
  /\ Runs(r, {"createOrder"},
          {"voucher_find", "voucher_expire", "voucher_use", "discount"})
  /\ AnswerOf(r, errorHandler(StoreError))
  /\ UNCHANGED <<orders, missions, transactions, vouchers>>
  /\ UNCHANGED <<settings, sessions, payments, promo>>

\* A store call of the voucher step throws: createOrder catches and logs it.
VoucherStepFail(r) ==
  /\ Runs(r, {"createOrder"},
          {"voucher_find", "voucher_expire", "voucher_use", "discount"})
  /\ AnswerOf(r, 201)
  /\ UNCHANGED <<orders, missions, transactions, vouchers>>
  /\ UNCHANGED <<settings, sessions, payments, promo>>

\* createOrder commits and one of its other post-commit steps throws: the
\* promo application, the dispatcher lookup, an SMS (each inside a try/catch
\* that logs) or the customer notification (notify catches it itself).  The
\* call goes on to the voucher step and returns the order.
PostCommitFail(r, p) ==
  /\ Takes(r, p)
  /\ p.rejects
  /\ Len(orders) < p.maxOrders
  /\ \E input \in p.inputs :
       LET id == Len(orders) + 1
           o == stamp(newOrder(input), Len(orders) + 1)
       IN  /\ createOrderError(input) = <<>>
           /\ orders' = Append(orders, o)
           /\ transactions' =
                Append(transactions, initialTransaction(id, o.subtotal))
           /\ IF input.voucherCode # ""
              THEN At(r, "createOrder", "voucher_find", id,
                         input.voucherCode, input.customerUserId,
                         [total |-> o.total, discount |-> 0])
              ELSE \E msgs \in SUBSET notifications("createOrder", id, "",
                                                    input.customerUserId, 201) :
                     Reply(r, "createOrder", id, "", input.customerUserId, 201,
                           <<>>, msgs)
  /\ UNCHANGED <<missions, vouchers>>
  /\ UNCHANGED <<settings, sessions, payments, promo>>

----------------------------------------------------------------------------
(* createOrder, the earlier variant: it prices from the catalog alone and  *)
(* writes the merchant and the courier Transaction with the order.         *)

RECURSIVE legacySubtotal(_)
legacySubtotal(items) ==
  IF items = <<>> THEN 0
  ELSE Dishes[Head(items).dishId].price * Head(items).qty
       + legacySubtotal(Tail(items))

LEGACY_CAMPUS_DELIVERY_FEE == 2000

\* (estimatedDistanceKm || 1): no distance and distance 0 are 1 km.
legacyDeliveryFee(method, km) ==
  IF method = "pickup" THEN 0
  ELSE IF method = "campus"
  THEN getSetting("CAMPUS_DELIVERY_FEE", LEGACY_CAMPUS_DELIVERY_FEE)
  ELSE Max(getSetting("OFF_CAMPUS_MIN_FEE", OFF_CAMPUS_MIN_FEE),
           roundKmTimes(IF km = <<>> \/ km[1] = 0 THEN <<1, 1>> ELSE km,
                        getSetting("OFF_CAMPUS_RATE_PER_KM", OFF_CAMPUS_RATE_PER_KM)))

\* COMMISSION_RATE = 0.10: Math.round(subtotal * COMMISSION_RATE).
legacyCommission(subtotal) == RoundDiv(subtotal, 10)

\* The Transactions the earlier createOrder writes for order id.
legacyTransactions(id, subtotal, deliveryFee) ==
  <<[orderId |-> id, beneficiary |-> "merchant", amount |-> subtotal,
     commission |-> legacyCommission(subtotal),
     netAmount |-> subtotal - legacyCommission(subtotal), status |-> "pending"]>>
  \o (IF deliveryFee > 0
      THEN <<[orderId |-> id, beneficiary |-> "courier", amount |-> deliveryFee,
              commission |-> 0, netAmount |-> deliveryFee, status |-> "pending"]>>
      ELSE <<>>)

CreateOrderLegacy(r, p) ==
  /\ Takes(r, p)
  /\ \E input \in p.inputs :
       LET id == Len(orders) + 1
           valid == \A i \in DOMAIN input.items :
                      /\ input.items[i].dishId \in DOMAIN Dishes
                      /\ Dishes[input.items[i].dishId].restaurantId = input.restaurantId
           subtotal == legacySubtotal(input.items)
           deliveryFee == legacyDeliveryFee(input.deliveryMethod, input.km)
       IN  IF ~valid
           THEN /\ p.rejects
                /\ Answer(r, "createOrder", 0, "", input.customerUserId, 400)
                /\ UNCHANGED <<orders, transactions>>
           ELSE /\ Len(orders) < p.maxOrders
                /\ orders' = Append(orders,
                     [customerUserId |-> input.customerUserId,
                      restaurantId |-> input.restaurantId,
                      items |-> [i \in DOMAIN input.items |->
                                   [dishId |-> input.items[i].dishId,
                                    price |-> Dishes[input.items[i].dishId].price,
                                    customPrice |-> 0, qty |-> input.items[i].qty]],
                      subtotal |-> subtotal, serviceFee |-> SERVICE_FEE,
                      deliveryFee |-> deliveryFee, discount |-> 0,
                      total |-> subtotal + SERVICE_FEE + deliveryFee,
                      deliveryMethod |-> input.deliveryMethod,
                      estimatedDistanceKm |-> input.km,
                      voucherUsed |-> "", status |-> "received",
                      code |-> Len(orders) + 1, createdAt |-> Len(orders) + 1])
                /\ transactions' =
                     transactions \o legacyTransactions(id, subtotal, deliveryFee)
                /\ Reply(r, "createOrder", id, "", input.customerUserId, 201, <<>>,
                         {Msg("customer", input.customerUserId, "order.created", id),
                          Msg("merchant", ownerUserId(input.restaurantId),
                              "order.new_for_restaurant", id)})
  /\ UNCHANGED <<missions, vouchers>>
  /\ UNCHANGED <<settings, sessions, payments, promo>>

----------------------------------------------------------------------------
(* POST orders/:id/confirm and PATCH orders/:id/status. *)

\* confirm: findUnique and the check of the status read.
Confirm(r, p) ==
  /\ Takes(r, p)
  /\ \E id \in OrderIds :
       IF id \notin DOMAIN orders
       THEN p.rejects /\ Answer(r, "confirm", id, "received", NoUser, 404)
       ELSE IF orders[id].status # "pending_confirmation"
       THEN p.rejects /\ Answer(r, "confirm", id, "received", NoUser, 400)
       ELSE At(r, "confirm", "write", id, "received", NoUser, orders[id].status)
  /\ UNCHANGED <<orders, missions, transactions, vouchers>>
  /\ UNCHANGED <<settings, sessions, payments, promo>>

\* PATCH status: findUnique and the check against allowed[order.status].
PatchOrder(r, p) ==
  /\ Takes(r, p)
  /\ \E id \in OrderIds, status \in OrderStatuses :
       IF id \notin DOMAIN orders
       THEN p.rejects /\ Answer(r, "patchOrder", id, status, NoUser, 404)
       ELSE IF status \notin allowed(orders[id].status)
       THEN p.rejects /\ Answer(r, "patchOrder", id, status, NoUser, 400)
       ELSE /\ At(r, "patchOrder", "write", id, status, NoUser, orders[id].status)
  /\ UNCHANGED <<orders, missions, transactions, vouchers>>
  /\ UNCHANGED <<settings, sessions, payments, promo>>

\* prisma.order.update({ where: { id }, data: { status } }) of both handlers.
OrderStatusWrite(r) ==
  /\ Runs(r, {"confirm", "patchOrder"}, {"write"})
  /\ orders' = [orders EXCEPT ![req[r].id].status = req[r].arg]
  /\ AnswerOf(r, 200)
  /\ UNCHANGED <<missions, transactions, vouchers>>
  /\ UNCHANGED <<settings, sessions, payments, promo>>

----------------------------------------------------------------------------
(* POST orders/:id/assign-mission. *)

\* A findFirst that finds no mission.
missionsOfNone(orderId) == {}

\* The missions of an order, as findFirst({ where: { orderId } }) sees them.
missionsOf(orderId) == {m \in DOMAIN missions : missions[m].orderId = orderId}

Min(S) == CHOOSE x \in S : \A y \in S : x <= y

\* findUnique of the order and the check that it is ready.
AssignMission(r, p) ==
  /\ Takes(r, p)
  /\ \E id \in OrderIds :
       IF id \notin DOMAIN orders
       THEN p.rejects /\ Answer(r, "assignMission", id, "", NoUser, 404)
       ELSE IF orders[id].status # "ready"
       THEN p.rejects /\ Answer(r, "assignMission", id, "", NoUser, 400)
       ELSE At(r, "assignMission", "find", id, "", NoUser, "")
  /\ UNCHANGED <<orders, missions, transactions, vouchers>>
  /\ UNCHANGED <<settings, sessions, payments, promo>>

\* findFirst of an existing mission: it is returned when there is one.
AssignFind(r) ==
  /\ Runs(r, {"assignMission"}, {"find"})
  /\ IF missionsOf(req[r].id) # {}
     THEN AnswerOf(r, 200)
     ELSE Goto(r, "create")
  /\ UNCHANGED <<orders, missions, transactions, vouchers>>
  /\ UNCHANGED <<settings, sessions, payments, promo>>

\* deliveryMission.create.
AssignCreate(r) ==
  /\ Runs(r, {"assignMission"}, {"create"})
  /\ missions' = Append(missions,
       [orderId |-> req[r].id, courierUserId |-> NoUser, status |-> "available",
        earning |-> MissionEarning])
  /\ AnswerOf(r, 201)
  /\ UNCHANGED <<orders, transactions, vouchers>>
  /\ UNCHANGED <<settings, sessions, payments, promo>>

----------------------------------------------------------------------------
(* POST missions/:id/accept and PATCH missions/:id/status. *)

\* accept: findUnique and the check that the mission read is available.
AcceptMission(r, p) ==
  /\ Takes(r, p)
  /\ \E id \in MissionIds, user \in Couriers :
       IF id \notin DOMAIN missions
       THEN p.rejects /\ Answer(r, "accept", id, "accepted", user, 404)
       ELSE IF missions[id].status # "available"
       THEN p.rejects /\ Answer(r, "accept", id, "accepted", user, 400)
       ELSE /\ At(r, "accept", "write", id, "accepted", user, missions[id].status)
  /\ UNCHANGED <<orders, missions, transactions, vouchers>>
  /\ UNCHANGED <<settings, sessions, payments, promo>>

\* accept: update({ where: { id }, data: { status, courierUserId } }).
AcceptWrite(r) ==
  /\ Runs(r, {"accept"}, {"write"})
  /\ missions' = [missions EXCEPT ![req[r].id].status = "accepted",
                                  ![req[r].id].courierUserId = req[r].user]
  /\ AnswerOf(r, 200)
  /\ UNCHANGED <<orders, transactions, vouchers>>
  /\ UNCHANGED <<settings, sessions, payments, promo>>

\* An ownership check that also lets a mission nobody owns be updated.
ownsOrUnowned(mission, user) == mission.courierUserId \in {user, NoUser}

\* existing.courierUserId !== user.id, negated.
owns(mission, user) == mission.courierUserId = user

\* PATCH status: findUnique, the ownership check and the transition check.
PatchMission(r, p) ==
  /\ Takes(r, p)
  /\ \E id \in MissionIds, user \in Couriers, status \in MissionStatuses :
       IF id \notin DOMAIN missions
       THEN p.rejects /\ Answer(r, "patchMission", id, status, user, 404)
       ELSE IF ~owns(missions[id], user)
       THEN p.rejects /\ Answer(r, "patchMission", id, status, user, 403)
       ELSE IF status \notin allowedMission(missions[id].status)
       THEN p.rejects /\ Answer(r, "patchMission", id, status, user, 400)
       ELSE At(r, "patchMission", "tx", id, status, user,
                  [orderId |-> missions[id].orderId])
  /\ UNCHANGED <<orders, missions, transactions, vouchers>>
  /\ UNCHANGED <<settings, sessions, payments, promo>>

\* The $transaction: the mission update and, on delivered, the order update.
PatchMissionTx(r) ==
  /\ Runs(r, {"patchMission"}, {"tx"})
  /\ missions' = [missions EXCEPT ![req[r].id].status = req[r].arg]
  /\ IF req[r].arg = "delivered"
     THEN /\ orders' = [orders EXCEPT ![req[r].snap.orderId].status = "delivered"]
          /\ Goto(r, "ens_order")
     ELSE /\ UNCHANGED orders
          /\ AnswerOf(r, 200)
  /\ UNCHANGED <<transactions, vouchers>>
  /\ UNCHANGED <<settings, sessions, payments, promo>>

\* The $transaction throws: it is rolled back and errorHandler answers.
PatchMissionTxFail(r) ==
  /\ Runs(r, {"patchMission"}, {"tx"})
  /\ AnswerOf(r, errorHandler(StoreError))
  /\ UNCHANGED <<orders, missions, transactions, vouchers>>
  /\ UNCHANGED <<settings, sessions, payments, promo>>

----------------------------------------------------------------------------
(* ensureMerchantAndCourierTransactions, called by PATCH missions/:id/status *)
(* on delivered and by any other caller of the exported function.          *)

\* A findFirst that finds no Transaction.
transactionsOfNone(orderId, beneficiary) == {}

\* The Transactions of an order for a beneficiary, as findFirst sees them.
transactionsOf(orderId, beneficiary) ==
  {t \in DOMAIN transactions :
     /\ transactions[t].orderId = orderId
     /\ transactions[t].beneficiary = beneficiary}

\* A direct call of ensureMerchantAndCourierTransactions(orderId).
Settle(r, p) ==
  /\ Takes(r, p)
  /\ \E id \in OrderIds :
       IF id \notin DOMAIN orders
       THEN p.rejects /\ Answer(r, "settle", id, "", NoUser, 500)
       ELSE At(r, "settle", "ens_merchant", id, "", NoUser,
                  [orderId |-> id, total |-> orders[id].total,
                   commission |-> computeCommission(orders[id].deliveryFee),
                   earning |-> 0])
  /\ UNCHANGED <<orders, missions, transactions, vouchers>>
  /\ UNCHANGED <<settings, sessions, payments, promo>>

\* findUnique of the order and computeCommission.
EnsureOrder(r) ==
  /\ Runs(r, {"patchMission"}, {"ens_order"})
  /\ LET id == req[r].snap.orderId
     IN  req' = [req EXCEPT ![r].pc = "ens_merchant",
                   ![r].snap = [orderId |-> id, total |-> orders[id].total,
                                commission |-> computeCommission(orders[id].deliveryFee),
                                earning |-> 0]]
  /\ response' = NoResponse /\ outbox' = {}
  /\ UNCHANGED <<orders, missions, transactions, vouchers>>
  /\ UNCHANGED <<settings, sessions, payments, promo>>

\* A settlement that writes the merchant payout without looking for one.
EnsureMerchantAlways(r) ==
  /\ Runs(r, {"patchMission", "settle"}, {"ens_merchant"})
  /\ Goto(r, "ens_merchant_create")
  /\ UNCHANGED <<orders, missions, transactions, vouchers>>
  /\ UNCHANGED <<settings, sessions, payments, promo>>

\* findFirst of the merchant Transaction.
EnsureMerchant(r) ==
  /\ Runs(r, {"patchMission", "settle"}, {"ens_merchant"})
  /\ IF transactionsOf(req[r].snap.orderId, "merchant") = {}
     THEN Goto(r, "ens_merchant_create")
     ELSE Goto(r, "ens_mission")
  /\ UNCHANGED <<orders, missions, transactions, vouchers>>
  /\ UNCHANGED <<settings, sessions, payments, promo>>

\* findFirst of the mission, then findFirst of the courier Transaction.
EnsureMission(r) ==
  /\ Runs(r, {"patchMission", "settle"}, {"ens_mission"})
  /\ IF missionsOf(req[r].snap.orderId) = {}
     THEN AnswerOf(r, 200)
     ELSE /\ req' = [req EXCEPT ![r].pc = "ens_courier",
                       ![r].snap.earning =
                          missions[Min(missionsOf(req[r].snap.orderId))].earning]
          /\ response' = NoResponse /\ outbox' = {}
  /\ UNCHANGED <<orders, missions, transactions, vouchers>>
  /\ UNCHANGED <<settings, sessions, payments, promo>>

EnsureCourier(r) ==
  /\ Runs(r, {"patchMission", "settle"}, {"ens_courier"})
  /\ IF transactionsOf(req[r].snap.orderId, "courier") = {}
     THEN Goto(r, "ens_courier_create")
     ELSE AnswerOf(r, 200)
  /\ UNCHANGED <<orders, missions, transactions, vouchers>>
  /\ UNCHANGED <<settings, sessions, payments, promo>>

\* transaction.create of the merchant payout or of the courier payout.
EnsureCreate(r) ==
  /\ Runs(r, {"patchMission", "settle"},
          {"ens_merchant_create", "ens_courier_create"})
  /\ LET s == req[r].snap
     IN  IF req[r].pc = "ens_merchant_create"
         THEN /\ transactions' = Append(transactions,
                   [orderId |-> s.orderId, beneficiary |-> "merchant",
                    amount |-> s.total, commission |-> s.commission,
                    netAmount |-> s.total - s.commission, status |-> "pending"])
              /\ Goto(r, "ens_mission")
         ELSE /\ transactions' = Append(transactions,
                   [orderId |-> s.orderId, beneficiary |-> "courier",
                    amount |-> s.earning, commission |-> 0,
                    netAmount |-> s.earning, status |-> "pending"])
              /\ AnswerOf(r, 200)
  /\ UNCHANGED <<orders, missions, vouchers>>
  /\ UNCHANGED <<settings, sessions, payments, promo>>

----------------------------------------------------------------------------
(* GET pricing/delivery: the pricing preview. *)

\* The customer's first orders are shown free of fees: count < 3.
FreeTrialOrders == 3

\* A count that finds no orders.
orderCountNone(user) == 0

\* prisma.order.count({ where: { customerUserId } }).
orderCount(user) ==
  Cardinality({o \in DOMAIN orders : orders[o].customerUserId = user})

\* Math.max(1, Number(km || 1)): no distance and distance 0 are 1 km, and a
\* distance under 1 km is 1 km.
previewDistance(km) ==
  IF km = <<>> \/ km[1] = 0 \/ km[1] < km[2] THEN <<1, 1>> ELSE km

\* The delivery fee the preview computes for a known method.
previewDeliveryFee(method, km) ==
  IF method = "pickup" THEN 0
  ELSE IF method = "campus"
  THEN getSetting("CAMPUS_DELIVERY_FEE", CAMPUS_DELIVERY_FEE)
  ELSE Max(getSetting("OFF_CAMPUS_MIN_FEE", OFF_CAMPUS_MIN_FEE),
           roundKmTimes(previewDistance(km),
                        getSetting("OFF_CAMPUS_RATE_PER_KM", OFF_CAMPUS_RATE_PER_KM)))

DeliveryMethods == {"pickup", "campus", "offcampus"}

\* The distances of the requests: none, 0, half a kilometre, 1, 1.5 and 5 km.
Distances == {<<>>, <<0, 1>>, <<1, 2>>, <<1, 1>>, <<3, 2>>, <<5, 1>>}

\* The handler: the caller's order count, the settings, the fee of the
\* method (400 for an unknown method), and the free answer of the free trial.
PricingDelivery(r, p) ==
  /\ Takes(r, p)
  /\ \E method \in DeliveryMethods \cup {"drone"}, km \in Distances,
        user \in Customers \cup {NoUser} :
       LET isFree == user # NoUser /\ orderCount(user) < FreeTrialOrders
           query == [method |-> method, km |-> km]
       IN  IF method \notin DeliveryMethods
           THEN p.rejects /\ Answer(r, "pricing", 0, query, user, 400)
           ELSE IF isFree
           THEN Reply(r, "pricing", 0, query, user, 200,
                      [serviceFee |-> 0, deliveryFee |-> 0, isFreeTrial |-> TRUE],
                      {})
           ELSE Reply(r, "pricing", 0, query, user, 200,
                      [serviceFee |-> getSetting("SERVICE_FEE", SERVICE_FEE),
                       deliveryFee |-> previewDeliveryFee(method, km),
                       isFreeTrial |-> FALSE],
                      {})
  /\ UNCHANGED <<orders, missions, transactions, vouchers>>
  /\ UNCHANGED <<settings, sessions, payments, promo>>

----------------------------------------------------------------------------
(* GET restaurants/:id/orders: the merchant's order listing. *)

\* The merchants: merchant k owns restaurant k.
Merchants == {1, 2}

\* findMany({ where: { restaurantId: id } }): the ids of the orders returned.
ordersOfRestaurant(id) == {o \in DOMAIN orders : orders[o].restaurantId = id}

\* The handler for a merchant: the restaurant, its owner, and the orders.
ListOrders(r, p) ==
  /\ Takes(r, p)
  /\ \E id \in Restaurants \cup {3}, user \in Merchants :
       IF id \notin Restaurants
       THEN p.rejects /\ Answer(r, "listOrders", id, "", user, 404)
       ELSE IF ownerUserId(id) # user
       THEN p.rejects /\ Answer(r, "listOrders", id, "", user, 403)
       ELSE Reply(r, "listOrders", id, "", user, 200, ordersOfRestaurant(id), {})
  /\ UNCHANGED <<orders, missions, transactions, vouchers>>
  /\ UNCHANGED <<settings, sessions, payments, promo>>

----------------------------------------------------------------------------
(* Payments: POST payments/intent, the staging of a cart by POST            *)
(* payments/mobile/initiate, and the webhooks of Stripe, Labyrinthe, Moko.  *)

\* Payment ids, and Stripe intent ids, a request may name: the stored ones
\* and one more.
PaymentIds == 1..(Len(payments) + 1)

\* The order numbers Labyrinthe gives its collections.
OrderNumbers == {1, 2}

\* POST payments/intent: a pending Payment for the order, of Stripe with the
\* intent's id for a card, of Moko without a reference for mobile money.
PaymentIntent(r, p) ==
  /\ Takes(r, p)
  /\ \E orderId \in OrderIds, method \in {"card", "mobile"} :
       IF orderId \notin DOMAIN orders
       THEN /\ p.rejects
            /\ Answer(r, "intent", orderId, method, NoUser, 404)
            /\ UNCHANGED payments
       ELSE /\ Len(payments) < MaxPayments
            /\ payments' = Append(payments,
                 [orderId |-> orderId,
                  provider |-> IF method = "card" THEN "stripe" ELSE "moko",
                  providerRef |-> IF method = "card" THEN Len(payments) + 1 ELSE 0,
                  status |-> "pending"])
            /\ Answer(r, "intent", orderId, method, NoUser, 201)
  /\ UNCHANGED <<orders, missions, transactions, vouchers, settings, sessions,
               promo>>

\* The staged carts without the one of orderNumber.
sessionsWithout(orderNumber) ==
  {s \in sessions : s.orderNumber # orderNumber}

\* initiateLabyrinthePayment: the dishes of the cart are checked and the cart
\* is staged under the provider's order number (setting.upsert).
LabyrintheInitiate(r, p) ==
  /\ Takes(r, p)
  /\ \E input \in p.inputs, orderNumber \in OrderNumbers :
       IF itemsError(input.items, input.restaurantId) # <<>>
       THEN /\ p.rejects
            /\ Answer(r, "labyrintheInitiate", 0, "", input.customerUserId, 400)
            /\ UNCHANGED sessions
       ELSE /\ sessions' = sessionsWithout(orderNumber)
                           \cup {[orderNumber |-> orderNumber, payload |-> input]}
            /\ Answer(r, "labyrintheInitiate", orderNumber, "",
                      input.customerUserId, 201)
  /\ UNCHANGED <<orders, missions, transactions, vouchers, settings, payments,
               promo>>

\* The events of Stripe and the Payment status each one writes; no status
\* for an event the handler leaves alone.
StripeEvents == {"payment_intent.succeeded", "payment_intent.payment_failed",
                 "charge.refunded", "customer.created"}

stripeStatus(type) ==
  IF type = "payment_intent.succeeded" THEN <<"succeeded">>
  ELSE IF type = "payment_intent.payment_failed" THEN <<"failed">>
  ELSE IF type = "charge.refunded" THEN <<"refunded">>
  ELSE <<>>

\* stripeWebhookHandler: the signature check, then updateMany on the
\* Payments of the intent; a store error (fails) is answered 200 as well.
StripeWebhook(r, p) ==
  /\ Takes(r, p)
  /\ \E sig \in {"missing", "invalid", "valid"}, type \in StripeEvents,
        ref \in PaymentIds, fails \in BOOLEAN :
       IF sig # "valid"
       THEN /\ p.rejects
            /\ ~fails
            /\ Answer(r, "stripeWebhook", ref, type, NoUser, 400)
            /\ UNCHANGED payments
       ELSE IF fails \/ stripeStatus(type) = <<>>
       THEN /\ p.rejects
            /\ Answer(r, "stripeWebhook", ref, type, NoUser, 200)
            /\ UNCHANGED payments
       ELSE /\ payments' =
                 [i \in DOMAIN payments |->
                    IF payments[i].provider = "stripe" /\ payments[i].providerRef = ref
                    THEN [payments[i] EXCEPT !.status = stripeStatus(type)[1]]
                    ELSE payments[i]]
            /\ Answer(r, "stripeWebhook", ref, type, NoUser, 200)
  /\ UNCHANGED <<orders, missions, transactions, vouchers, settings, sessions,
               promo>>

\* labyrintheWebhookHandler: no order number is acknowledged; code 3 deletes
\* the staged cart; code 2 goes on to look the staged cart up.
LabyrintheWebhook(r, p) ==
  /\ Takes(r, p)
  /\ \E orderNumber \in OrderNumbers \cup {0}, code \in {1, 2, 3} :
       IF orderNumber = 0 \/ code = 1
       THEN /\ p.rejects
            /\ Answer(r, "labyrintheWebhook", orderNumber, code, NoUser, 200)
            /\ UNCHANGED sessions
       ELSE IF code = 3
       THEN /\ sessions' = sessionsWithout(orderNumber)
            /\ Answer(r, "labyrintheWebhook", orderNumber, code, NoUser, 200)
       ELSE /\ At(r, "labyrintheWebhook", "laby_find", orderNumber, code, NoUser,
                    [msgs |-> {}])
            /\ UNCHANGED sessions
  /\ UNCHANGED <<orders, missions, transactions, vouchers, settings, payments,
               promo>>

\* setting.findUnique of the staged cart: none is acknowledged.
LabyrintheFind(r) ==
  /\ Runs(r, {"labyrintheWebhook"}, {"laby_find"})
  /\ LET found == {s \in sessions : s.orderNumber = req[r].id}
     IN  IF found = {}
         THEN AnswerOf(r, 200)
         ELSE /\ req' = [req EXCEPT ![r].pc = "laby_create",
                           ![r].snap = [msgs |-> {},
                                        payload |-> (CHOOSE s \in found : TRUE).payload]]
              /\ response' = NoResponse /\ outbox' = {}
  /\ UNCHANGED <<orders, missions, transactions, vouchers>>
  /\ UNCHANGED <<settings, sessions, payments, promo>>

\* createOrder(payload): an error it throws is swallowed and the staged cart
\* is deleted next; the order's notifications are sent.
LabyrintheCreate(r) ==
  /\ Runs(r, {"labyrintheWebhook"}, {"laby_create"})
  /\ LET input == req[r].snap.payload
         id == Len(orders) + 1
         o == stamp(newOrder(input), Len(orders) + 1)
     IN  IF createOrderError(input) # <<>>
         THEN /\ Goto(r, "laby_delete")
              /\ UNCHANGED <<orders, transactions>>
         ELSE /\ Len(orders) < MaxCreated
              /\ orders' = Append(orders, o)
              /\ transactions' =
                   Append(transactions, initialTransaction(id, o.subtotal))
              /\ req' = [req EXCEPT ![r].pc = "laby_pay",
                           ![r].snap = [msgs |-> notifications("createOrder", id, "",
                                                   input.customerUserId, 201),
                                        created |-> id]]
              /\ response' = NoResponse /\ outbox' = {}
  /\ UNCHANGED <<missions, vouchers>>
  /\ UNCHANGED <<settings, sessions, payments, promo>>

\* payment.create: the succeeded Payment of the created order.
LabyrinthePay(r) ==
  /\ Runs(r, {"labyrintheWebhook"}, {"laby_pay"})
  /\ Len(payments) < MaxPayments
  /\ payments' = Append(payments,
       [orderId |-> req[r].snap.created, provider |-> "labyrinthe",
        providerRef |-> req[r].id, status |-> "succeeded"])
  /\ Goto(r, "laby_delete")
  /\ UNCHANGED <<orders, missions, transactions, vouchers, settings, sessions,
               promo>>

\* setting.delete of the staged cart, and the acknowledgement.
LabyrintheDelete(r) ==
  /\ Runs(r, {"labyrintheWebhook"}, {"laby_delete"})
  /\ sessions' = sessionsWithout(req[r].id)
  /\ Reply(r, "labyrintheWebhook", req[r].id, req[r].arg, NoUser, 200, <<>>,
           req[r].snap.msgs)
  /\ UNCHANGED <<orders, missions, transactions, vouchers, settings, payments,
               promo>>

\* A store operation of the handler throws: the lookup's error reaches the
\* outer catch, which acknowledges; the others are swallowed where they are.
LabyrintheFail(r) ==
  /\ Runs(r, {"labyrintheWebhook"},
          {"laby_find", "laby_create", "laby_pay", "laby_delete"})
  /\ IF req[r].pc = "laby_find"
     THEN AnswerOf(r, 200)
     ELSE IF req[r].pc = "laby_delete"
     THEN Reply(r, "labyrintheWebhook", req[r].id, req[r].arg, NoUser, 200, <<>>,
                req[r].snap.msgs)
     ELSE Goto(r, "laby_delete")
  /\ UNCHANGED <<orders, missions, transactions, vouchers>>
  /\ UNCHANGED <<settings, sessions, payments, promo>>

\* The newest of the payments ps (orderBy id desc).
latest(ps) == CHOOSE i \in ps : \A j \in ps : j <= i

\* The Payment status of a Moko status.
mokoStatus(status) ==
  IF status \in {"successful", "success"} THEN "succeeded" ELSE "failed"

\* The Moko webhook: the reference, then findUnique of the order of the
\* reference's code.
MokoWebhook(r, p) ==
  /\ Takes(r, p)
  /\ \E reference \in OrderIds \cup {0}, status \in {"successful", "failed"} :
       IF reference = 0
       THEN p.rejects /\ Answer(r, "mokoWebhook", reference, status, NoUser, 400)
       ELSE IF reference \notin DOMAIN orders
       THEN p.rejects /\ Answer(r, "mokoWebhook", reference, status, NoUser, 404)
       ELSE At(r, "mokoWebhook", "moko_find", reference, status, NoUser,
               [payment |-> 0])
  /\ UNCHANGED <<orders, missions, transactions, vouchers>>
  /\ UNCHANGED <<settings, sessions, payments, promo>>

\* findFirst of the order's newest Payment: one that succeeded is left alone.
MokoFind(r) ==
  /\ Runs(r, {"mokoWebhook"}, {"moko_find"})
  /\ LET ps == {i \in DOMAIN payments : payments[i].orderId = req[r].id}
     IN  IF ps = {}
         THEN AnswerOf(r, 404)
         ELSE IF payments[latest(ps)].status = "succeeded"
         THEN AnswerOf(r, 200)
         ELSE /\ req' = [req EXCEPT ![r].pc = "moko_update",
                           ![r].snap = [payment |-> latest(ps)]]
              /\ response' = NoResponse /\ outbox' = {}
  /\ UNCHANGED <<orders, missions, transactions, vouchers>>
  /\ UNCHANGED <<settings, sessions, payments, promo>>

\* payment.update with the mapped status; the customer is told of a payment
\* that succeeded.
MokoUpdate(r) ==
  /\ Runs(r, {"mokoWebhook"}, {"moko_update"})
  /\ payments' = [payments EXCEPT
                    ![req[r].snap.payment].status = mokoStatus(req[r].arg)]
  /\ Reply(r, "mokoWebhook", req[r].id, req[r].arg, NoUser, 200, <<>>,
           IF mokoStatus(req[r].arg) = "succeeded"
           THEN {Msg("customer", orders[req[r].id].customerUserId, "order.paid",
                     req[r].id)}
           ELSE {})
  /\ UNCHANGED <<orders, missions, transactions, vouchers, settings, sessions,
               promo>>

\* A store operation of the Moko webhook throws: errorHandler answers.
MokoFail(r) ==
  /\ Runs(r, {"mokoWebhook"}, {"moko_find", "moko_update"})
  /\ AnswerOf(r, errorHandler(StoreError))
  /\ UNCHANGED <<orders, missions, transactions, vouchers>>
  /\ UNCHANGED <<settings, sessions, payments, promo>>

----------------------------------------------------------------------------
(* PATCH transactions/:id/mark-paid. *)

TransactionIds == 1..(2 * MaxOrders + 1)

\* mark-paid: findUnique, then update({ where: { id }, data: { status } }).
MarkPaid(r, p) ==
  /\ Takes(r, p)
  /\ \E id \in TransactionIds :
       IF id \notin DOMAIN transactions
       THEN /\ p.rejects
            /\ Answer(r, "markPaid", id, "", NoUser, 404)
            /\ UNCHANGED transactions
       ELSE /\ transactions' = [transactions EXCEPT ![id].status = "paid"]
            /\ Answer(r, "markPaid", id, "", NoUser, 200)
  /\ UNCHANGED <<orders, missions, vouchers>>
  /\ UNCHANGED <<settings, sessions, payments, promo>>

----------------------------------------------------------------------------
(* The specifications. *)

\* The answer leaves the server.
Sent ==
  /\ response # NoResponse
  /\ response' = NoResponse /\ outbox' = {}
  /\ UNCHANGED <<orders, missions, transactions, vouchers, req>>
  /\ UNCHANGED <<settings, sessions, payments, promo>>

\* A profile of the clients: the POST orders bodies they send (inputs),
\* whether they also send requests that the first check of the handler
\* rejects (rejects), how many orders they place (maxOrders), and whether a
\* request is sent only once the previous one is answered (serial).
Profile(inputs, maxOrders, rejects, serial) ==
  [inputs |-> inputs, maxOrders |-> maxOrders, rejects |-> rejects,
   serial |-> serial, times |-> {}]

\* A profile of clients whose orders reach the server at any of the clock
\* values times (milliseconds).
TimedProfile(inputs, maxOrders, rejects, serial, times) ==
  [inputs |-> inputs, maxOrders |-> maxOrders, rejects |-> rejects,
   serial |-> serial, times |-> times]

ValidInputs == {input \in OrderInputs : createOrderError(input) = <<>>}
PlainInputs == {input \in ValidInputs : input.voucherCode = ""}

Creation(r, p) ==
  \/ CreateOrder(r, p) \/ CreateOrderTxFail(r, p)
  \/ VoucherFind(r) \/ VoucherExpire(r) \/ VoucherUse(r) \/ OrderDiscount(r)
  \/ VoucherStepFail(r)

Promotion(r) ==
  \/ PromoFind(r) \/ PromoUsage(r) \/ PromoPoints(r) \/ PromoMint(r)
  \/ PromoStepFail(r)

OrderStatus(r, p) ==
  \/ Confirm(r, p) \/ PatchOrder(r, p) \/ OrderStatusWrite(r)

Mission(r, p) ==
  \/ AssignMission(r, p) \/ AssignFind(r) \/ AssignCreate(r)
  \/ AcceptMission(r, p) \/ AcceptWrite(r)
  \/ PatchMission(r, p) \/ PatchMissionTx(r) \/ PatchMissionTxFail(r)

Settlement(r) ==
  \/ EnsureOrder(r) \/ EnsureMerchant(r) \/ EnsureMission(r)
  \/ EnsureCourier(r) \/ EnsureCreate(r)

\* The whole system: every handler, run concurrently, on every request.
Next ==
  \E r \in Reqs :
    LET p == Profile(OrderInputs \cup PromoInputs, MaxCreated, TRUE, FALSE)
    IN  \/ Creation(r, p) \/ Promotion(r) \/ OrderStatus(r, p) \/ Mission(r, p)
        \/ Settle(r, p) \/ Settlement(r) \/ MarkPaid(r, p) \/ Sent

Spec == Init /\ [][Next]_vars

\* The order lifecycle with the handlers run one after the other.
SeqNext ==
  \E r \in Reqs :
    LET p == Profile(PlainInputs, MaxOrders, TRUE, TRUE)
    IN  \/ CreateOrder(r, p)
        \/ OrderStatus(r, p) \/ Mission(r, p) \/ Settlement(r) \/ Sent

SeqSpec == Init /\ [][SeqNext]_vars

\* The order lifecycle with the handlers run concurrently, on the requests
\* that pass the first check of their handler.
RaceNext ==
  \E r \in Reqs :
    LET p == Profile(PlainInputs, MaxOrders, FALSE, FALSE)
    IN  \/ CreateOrder(r, p)
        \/ OrderStatus(r, p) \/ Mission(r, p) \/ Settlement(r) \/ Sent

RaceSpec == Init /\ [][RaceNext]_vars

\* The order status handlers run concurrently, on every request.
StatusNext ==
  \E r \in Reqs :
    LET p == Profile({Input(1, 1, Cart1, "campus", <<>>, "")}, MaxOrders, TRUE, FALSE)
    IN  CreateOrder(r, p) \/ OrderStatus(r, p) \/ Sent

StatusSpec == Init /\ [][StatusNext]_vars

\* The order lifecycle and the settlement calls run one after the other, on
\* orders written by either variant of createOrder.
SettleNext ==
  \E r \in Reqs :
    LET p == Profile(PlainInputs, MaxOrders, FALSE, TRUE)
    IN  \/ CreateOrder(r, p) \/ CreateOrderLegacy(r, p)
        \/ OrderStatus(r, p) \/ Mission(r, p)
        \/ Settle(r, p) \/ Settlement(r) \/ Sent

SettleSpec == Init /\ [][SettleNext]_vars

\* The order lifecycle with the handlers run one after the other, on every
\* assign-mission request and on the other requests that pass the first check
\* of their handler.
AssignNext ==
  \E r \in Reqs :
    LET p == Profile(PlainInputs, MaxOrders, FALSE, TRUE)
        q == Profile(PlainInputs, MaxOrders, TRUE, TRUE)
    IN  \/ CreateOrder(r, p) \/ OrderStatus(r, p)
        \/ AssignMission(r, q) \/ AssignFind(r) \/ AssignCreate(r)
        \/ AcceptMission(r, p) \/ AcceptWrite(r)
        \/ PatchMission(r, p) \/ PatchMissionTx(r) \/ PatchMissionTxFail(r)
        \/ Settlement(r) \/ Sent

AssignSpec == Init /\ [][AssignNext]_vars

\* The order lifecycle with the handlers run one after the other, on every
\* request to the mission handlers and on the other requests that pass the
\* first check of their handler.
MissionNext ==
  \E r \in Reqs :
    LET p == Profile(PlainInputs, MaxOrders, FALSE, TRUE)
        q == Profile(PlainInputs, MaxOrders, TRUE, TRUE)
    IN  \/ CreateOrder(r, p) \/ OrderStatus(r, p)
        \/ AssignMission(r, p) \/ AssignFind(r) \/ AssignCreate(r)
        \/ AcceptMission(r, q) \/ AcceptWrite(r)
        \/ PatchMission(r, q) \/ PatchMissionTx(r) \/ PatchMissionTxFail(r)
        \/ Settlement(r) \/ Sent

MissionSpec == Init /\ [][MissionNext]_vars

\* createOrder calls one after the other, on carts with override prices.
PriceNext ==
  \E r \in Reqs :
    CreateOrder(r, Profile(PriceInputs, MaxCreated, FALSE, TRUE)) \/ Sent

PriceSpec == Init /\ [][PriceNext]_vars

\* Order creation with concurrent createOrder calls on every body, the store
\* working.
ValidationNext ==
  \E r \in Reqs :
    \/ CreateOrder(r, Profile(OrderInputs, MaxCreated, TRUE, FALSE))
    \/ VoucherFind(r) \/ VoucherExpire(r) \/ VoucherUse(r) \/ OrderDiscount(r)
    \/ Sent

ValidationSpec == Init /\ [][ValidationNext]_vars

\* Order creation with concurrent createOrder calls on the bodies that pass
\* validation, the store and the post-commit steps failing or not.
CommitNext ==
  \E r \in Reqs :
    LET p == Profile(ValidInputs, MaxCreated, TRUE, FALSE)
    IN  Creation(r, p) \/ PostCommitFail(r, p) \/ Sent

CommitSpec == Init /\ [][CommitNext]_vars

\* createOrder calls one after the other on the bodies that pass validation,
\* with and without voucher codes.
VoucherNext ==
  \E r \in Reqs :
    \/ CreateOrder(r, Profile(ValidInputs, MaxCreated, FALSE, TRUE))
    \/ VoucherFind(r) \/ VoucherExpire(r) \/ VoucherUse(r) \/ OrderDiscount(r)
    \/ VoucherStepFail(r) \/ Sent

VoucherSpec == Init /\ [][VoucherNext]_vars

\* Order creation alone, with concurrent createOrder calls on every body.
CreateNext ==
  \E r \in Reqs : Creation(r, Profile(OrderInputs, MaxCreated, TRUE, FALSE)) \/ Sent

CreateSpec == Init /\ [][CreateNext]_vars

\* The rows the Setting table may hold for the off-campus fee: none (the
\* fallbacks apply), and a rate per km above and below the minimum fee.
FeeSettings ==
  {[k \in SettingKeys |->
      IF k = "OFF_CAMPUS_RATE_PER_KM" THEN rate
      ELSE IF k = "OFF_CAMPUS_MIN_FEE" THEN min ELSE <<>>] :
     rate \in {<<>>, <<3000>>, <<700>>}, min \in {<<>>, <<1000>>}}

\* POST orders bodies of every delivery method and distance the body schema
\* lets through (estimatedDistanceKm is positive when it is given).
FeeInputs ==
  {Input(1, 1, Cart3, method, km, "") :
     method \in DeliveryMethods, km \in {d \in Distances : d = <<>> \/ d[1] > 0}}

\* The store with any of the fee settings.
FeeInit ==
  /\ orders = <<>>
  /\ missions = <<>>
  /\ transactions = <<>>
  /\ vouchers = [c \in {} |-> 0]
  /\ settings \in FeeSettings
  /\ sessions = {}
  /\ payments = <<>>
  /\ promo = PromoCodes(0)
  /\ req = [r \in Reqs |-> Idle]
  /\ response = NoResponse
  /\ outbox = {}

\* Orders and pricing previews, one request after the other.
FeeNext ==
  \E r \in Reqs :
    \/ CreateOrder(r, Profile(FeeInputs, MaxCreated, FALSE, TRUE))
    \/ PricingDelivery(r, Profile(FeeInputs, MaxCreated, TRUE, TRUE))
    \/ Sent

FeeSpec == FeeInit /\ [][FeeNext]_vars

\* POST orders bodies for either restaurant.
MerchantInputs ==
  { Input(1, 1, Cart3, "pickup", <<>>, ""),
    Input(2, 2, Cart4, "campus", <<>>, "") }

\* Orders placed, confirmed and moved on while the merchants list their
\* restaurants' orders.
MerchantNext ==
  \E r \in Reqs :
    \/ CreateOrder(r, Profile(MerchantInputs, MaxCreated, FALSE, FALSE))
    \/ OrderStatus(r, Profile(MerchantInputs, MaxCreated, FALSE, FALSE))
    \/ ListOrders(r, Profile(MerchantInputs, MaxCreated, TRUE, FALSE))
    \/ Sent

MerchantSpec == Init /\ [][MerchantNext]_vars

\* The carts staged for mobile money: one that createOrder accepts, one
\* without a customer that exists, one with a dish that does not exist.
StagedInputs ==
  { Input(1, 1, Cart3, "pickup", <<>>, ""),
    Input(NoUser, 1, Cart3, "pickup", <<>>, ""),
    Input(1, 1, Cart5, "campus", <<>>, "") }

Webhooks(r, p) ==
  \/ StripeWebhook(r, p)
  \/ LabyrintheWebhook(r, p) \/ LabyrintheFind(r) \/ LabyrintheCreate(r)
  \/ LabyrinthePay(r) \/ LabyrintheDelete(r) \/ LabyrintheFail(r)
  \/ MokoWebhook(r, p) \/ MokoFind(r) \/ MokoUpdate(r) \/ MokoFail(r)

\* Orders, payment intents and staged carts, with the callbacks of the three
\* providers, one request after the other.
WebhookNext ==
  \E r \in Reqs :
    LET p == Profile(StagedInputs, MaxCreated, TRUE, TRUE)
    IN  \/ CreateOrder(r, p) \/ PaymentIntent(r, p) \/ LabyrintheInitiate(r, p)
        \/ Webhooks(r, p) \/ Sent

WebhookSpec == Init /\ [][WebhookNext]_vars

\* A cart staged under order number 1 by initiateLabyrinthePayment, with
\* nothing else in the store.
LabyrintheInit ==
  /\ orders = <<>>
  /\ missions = <<>>
  /\ transactions = <<>>
  /\ vouchers = [c \in {} |-> 0]
  /\ settings = [k \in SettingKeys |-> <<>>]
  /\ sessions = {[orderNumber |-> 1, payload |-> Input(1, 1, Cart3, "pickup", <<>>, "")]}
  /\ payments = <<>>
  /\ promo = PromoCodes(0)
  /\ req = [r \in Reqs |-> Idle]
  /\ response = NoResponse
  /\ outbox = {}

\* The callbacks of Labyrinthe for the staged cart, delivered any number of
\* times and together.
LabyrintheNext ==
  \E r \in Reqs :
    \/ LabyrintheWebhook(r, Profile(StagedInputs, MaxCreated, TRUE, FALSE))
    \/ LabyrintheFind(r) \/ LabyrintheCreate(r) \/ LabyrinthePay(r)
    \/ LabyrintheDelete(r) \/ LabyrintheFail(r)
    \/ Sent

LabyrintheSpec == LabyrintheInit /\ [][LabyrintheNext]_vars

\* POST orders bodies of the two customers.
PreviewInputs ==
  { Input(1, 1, Cart3, "pickup", <<>>, ""),
    Input(2, 1, Cart3, "campus", <<>>, "") }

\* Orders of the two customers and pricing previews, one request after the
\* other, under any of the fee settings.
PreviewNext ==
  \E r \in Reqs :
    \/ CreateOrder(r, Profile(PreviewInputs, MaxPlaced, FALSE, TRUE))
    \/ PricingDelivery(r, Profile(PreviewInputs, MaxPlaced, TRUE, TRUE))
    \/ Sent

PreviewSpec == FeeInit /\ [][PreviewNext]_vars

\* Concurrent createOrder calls on the bodies that pass validation, with and
\* without voucher codes, the store working.
VoucherRaceNext ==
  \E r \in Reqs :
    \/ CreateOrder(r, Profile(ValidInputs, MaxCreated, FALSE, FALSE))
    \/ VoucherFind(r) \/ VoucherExpire(r) \/ VoucherUse(r) \/ OrderDiscount(r)
    \/ Sent

VoucherRaceSpec == Init /\ [][VoucherRaceNext]_vars

\* Clock values of the orders: the same millisecond, the next ones, and
\* milliseconds that are 1000 and 2000 seconds later.
Times == {1, 2, 3, 1000001, 1000002, 2000001}

\* createOrder calls of two customers at these clock values, one after the
\* other, the store working.
CodeNext ==
  \E r \in Reqs :
    \/ CreateOrder(r, TimedProfile(PreviewInputs, MaxCreated, FALSE, TRUE, Times))
    \/ Sent

CodeSpec == Init /\ [][CodeNext]_vars

\* The promo code P1 was applied 0, 9 or 19 times before.
PromoInit ==
  /\ orders = <<>>
  /\ missions = <<>>
  /\ transactions = <<>>
  /\ vouchers = [c \in {} |-> 0]
  /\ settings = [k \in SettingKeys |-> <<>>]
  /\ sessions = {}
  /\ payments = <<>>
  /\ promo \in {PromoCodes(n) : n \in {0, 9, 19}}
  /\ req = [r \in Reqs |-> Idle]
  /\ response = NoResponse
  /\ outbox = {}

\* Concurrent createOrder calls that carry promo codes, the store working.
PromoNext ==
  \E r \in Reqs :
    \/ CreateOrder(r, Profile(PromoInputs, MaxCreated, FALSE, FALSE))
    \/ PromoFind(r) \/ PromoUsage(r) \/ PromoPoints(r) \/ PromoMint(r)
    \/ Sent

PromoSpec == PromoInit /\ [][PromoNext]_vars

\* The order lifecycle, the settlement and the payout of the Transactions,
\* one request after the other, on orders written by either variant of
\* createOrder.
PayoutNext ==
  \E r \in Reqs :
    LET p == Profile({Input(1, 1, Cart1, "campus", <<>>, "")}, MaxOrders, FALSE, TRUE)
    IN  \/ CreateOrder(r, p) \/ CreateOrderLegacy(r, p)
        \/ OrderStatus(r, p) \/ Mission(r, p)
        \/ Settlement(r) \/ MarkPaid(r, p) \/ Sent

PayoutSpec == Init /\ [][PayoutNext]_vars

\* The lifecycle of the orders of createOrder, the settlement calls and the
\* payout of the Transactions, one request after the other.
PaidNext ==
  \E r \in Reqs :
    LET p == Profile({Input(1, 1, Cart1, "campus", <<>>, "")}, MaxOrders, FALSE, TRUE)
    IN  \/ CreateOrder(r, p)
        \/ OrderStatus(r, p) \/ Mission(r, p)
        \/ Settle(r, p) \/ Settlement(r) \/ MarkPaid(r, p) \/ Sent

PaidSpec == Init /\ [][PaidNext]_vars

----------------------------------------------------------------------------
(* The properties. *)

\* The order transition table as the specification prints it.
OrderTransitions ==
  {<<"pending_confirmation", "received">>, <<"pending_confirmation", "rejected">>,
   <<"received", "preparing">>, <<"received", "rejected">>,
   <<"preparing", "ready">>, <<"preparing", "rejected">>,
   <<"ready", "delivering">>, <<"delivering", "delivered">>}

\* This step takes a PATCH orders/id/status request asking for status.
PatchOrderTaken(id, status) ==
  /\ Quiet
  /\ \/ /\ req' = req
        /\ response'.op = "patchOrder"
        /\ response'.id = id
        /\ response'.arg = status
     \/ \E r \in Reqs :
          /\ Free(r)
          /\ req'[r].op = "patchOrder"
          /\ req'[r].id = id
          /\ req'[r].arg = status

\* C1: a PATCH orders/id/status request whose pair (stored status, requested
\* status) is not in the transition table is answered 400 Invalid status
\* transition, and no order changes.
C1_InvalidTransitionRejected ==
  [][\A id \in DOMAIN orders, status \in OrderStatuses :
       (PatchOrderTaken(id, status)
        /\ <<orders[id].status, status>> \notin OrderTransitions)
       => (response'.code = 400 /\ req' = req /\ orders' = orders)]_vars

\* A PATCH outside the table has just been answered 400.
C1_Witness ==
  /\ response.op = "patchOrder"
  /\ response.code = 400
  /\ response.id \in DOMAIN orders
  /\ <<orders[response.id].status, response.arg>> \notin OrderTransitions

\* C2: of two concurrent transition requests on one order, neither is applied
\* on a status the other has already replaced: every status written by
\* confirm or PATCH status follows the status stored just before the write by
\* a pair of the table.
C2_NoStaleTransition ==
  [][\A r \in Reqs :
       (req[r].op \in {"confirm", "patchOrder"} /\ req[r].pc = "write"
        /\ req'[r].pc = "idle")
       => <<orders[req[r].id].status, orders'[req[r].id].status>>
            \in OrderTransitions]_vars

\* C3: of the concurrent accept calls on one available mission exactly one
\* succeeds and owns it: an accept is answered 200 only when the mission is
\* still available as it is written, and the owner of a mission never changes.
C3_AcceptOnce ==
  [][/\ \A r \in Reqs :
          (req[r].op = "accept" /\ req[r].pc = "write" /\ response'.code = 200
           /\ req'[r].pc = "idle")
          => missions[req[r].id].status = "available"
     /\ \A m \in DOMAIN missions :
          missions[m].courierUserId # NoUser
          => missions'[m].courierUserId = missions[m].courierUserId]_vars

\* The number of Transactions stored for an order and a beneficiary.
TransactionCount(o, b) ==
  Cardinality({t \in DOMAIN transactions :
                 transactions[t].orderId = o /\ transactions[t].beneficiary = b})

\* The number of missions stored for an order.
MissionCount(o) ==
  Cardinality({m \in DOMAIN missions : missions[m].orderId = o})

\* C4: whatever the interleaving of the settlement calls on an order, it has
\* exactly one Transaction per beneficiary, never two.
C4_OneTransactionPerBeneficiary ==
  \A o \in DOMAIN orders : \A b \in {"merchant", "courier"} :
    TransactionCount(o, b) <= 1

\* C5: in every reachable state, the state between the commit of the order
\* and the update by the voucher included, every stored order has
\* total = subtotal + serviceFee + deliveryFee - discount.
C5_TotalIsSum ==
  \A o \in DOMAIN orders :
    orders[o].total = orders[o].subtotal + orders[o].serviceFee
                      + orders[o].deliveryFee - orders[o].discount

\* An order carries a voucher discount while another createOrder stands
\* between the use of its voucher and the update of its order.
C5_Witness ==
  /\ \E o \in DOMAIN orders : orders[o].discount > 0
  /\ \E r \in Reqs : req[r].op = "createOrder" /\ req[r].pc = "discount"

\* C6: every change of the stored status of an order is a pair of the
\* transition table, so an order becomes delivered only from delivering and
\* a delivered or rejected order never changes.
C6_OrderFollowsTable ==
  [][\A o \in DOMAIN orders :
       orders'[o].status # orders[o].status
       => <<orders[o].status, orders'[o].status>> \in OrderTransitions]_vars

\* C7: in every reachable state the order of a delivered mission is delivered.
C7_DeliveredMissionDeliveredOrder ==
  \A m \in DOMAIN missions :
    missions[m].status = "delivered"
    => orders[missions[m].orderId].status = "delivered"

\* The order has its merchant Transaction and, when it has a mission, its
\* courier Transaction.
Settled(o) ==
  /\ TransactionCount(o, "merchant") >= 1
  /\ MissionCount(o) >= 1 => TransactionCount(o, "courier") >= 1

\* C8: when the calls run one after the other an order never has two
\* Transactions for one beneficiary, and a settlement call that runs on an
\* order already settled creates and changes no Transaction.
C8_SettlementIdempotent ==
  [][/\ \A o \in DOMAIN orders' : \A b \in {"merchant", "courier"} :
          TransactionCount(o, b)' <= 1
     /\ \A r \in Reqs :
          (req[r].op \in {"settle", "patchMission"}
           /\ req[r].pc \in {"ens_merchant", "ens_merchant_create", "ens_mission",
                             "ens_courier", "ens_courier_create"}
           /\ req'[r] # req[r] /\ Settled(req[r].snap.orderId))
          => transactions' = transactions]_vars

\* A settlement call runs on an order that has a mission and is already
\* settled.
C8_Witness ==
  \E r \in Reqs :
    /\ req[r].op = "settle"
    /\ req[r].pc = "ens_courier"
    /\ MissionCount(req[r].id) = 1
    /\ Settled(req[r].id)

\* C9: when PATCH orders/id/status has set an order to delivered the
\* settlement has run: the order has its merchant Transaction and, when it
\* has a mission, a courier Transaction whose amount is the mission's earning.
C9_DeliveredOrderSettled ==
  (response.op = "patchOrder" /\ response.code = 200
   /\ response.arg = "delivered")
  => /\ TransactionCount(response.id, "merchant") >= 1
     /\ \A m \in DOMAIN missions :
          missions[m].orderId = response.id
          => \E t \in DOMAIN transactions :
               /\ transactions[t].orderId = response.id
               /\ transactions[t].beneficiary = "courier"
               /\ transactions[t].amount = missions[m].earning

\* This step takes an assign-mission request for order id.
AssignTaken(id) ==
  /\ Quiet
  /\ \/ /\ req' = req
        /\ response'.op = "assignMission"
        /\ response'.id = id
     \/ \E r \in Reqs :
          /\ Free(r)
          /\ req'[r].op = "assignMission"
          /\ req'[r].id = id

\* C10: assign-mission on an order that is not ready is answered 400 and
\* creates no mission; on an order that has a mission it returns that mission
\* and creates none; so with the calls one after the other an order never has
\* more than one mission.
C10_AssignMissionOnce ==
  [][/\ \A id \in DOMAIN orders :
          (AssignTaken(id) /\ orders[id].status # "ready")
          => (response'.code = 400 /\ req' = req /\ missions' = missions)
     /\ \A r \in Reqs :
          (req[r].op = "assignMission" /\ req[r].pc = "find"
           /\ req'[r] # req[r] /\ MissionCount(req[r].id) >= 1)
          => (response'.code = 200 /\ missions' = missions)
     /\ \A o \in DOMAIN orders' : MissionCount(o)' <= 1]_vars

\* assign-mission has returned the mission the order already has.
C10_Witness ==
  /\ response.op = "assignMission"
  /\ response.code = 200
  /\ MissionCount(response.id) = 1


\* The mission transition table as the specification prints it.
MissionTransitions ==
  {<<"available", "accepted">>, <<"accepted", "picked">>,
   <<"picked", "enroute">>, <<"enroute", "delivered">>}

\* This step takes an accept request of courier user for mission id.
AcceptTaken(id, user) ==
  /\ Quiet
  /\ \/ /\ req' = req
        /\ response'.op = "accept"
        /\ response'.id = id
        /\ response'.user = user
     \/ \E r \in Reqs :
          /\ Free(r)
          /\ req'[r].op = "accept"
          /\ req'[r].id = id
          /\ req'[r].user = user

\* This step takes a PATCH missions/id/status request of courier user asking
\* for status.
PatchMissionTaken(id, user, status) ==
  /\ Quiet
  /\ \/ /\ req' = req
        /\ response'.op = "patchMission"
        /\ response'.id = id
        /\ response'.user = user
        /\ response'.arg = status
     \/ \E r \in Reqs :
          /\ Free(r)
          /\ req'[r].op = "patchMission"
          /\ req'[r].id = id
          /\ req'[r].user = user
          /\ req'[r].arg = status

\* C11: the stored status of a mission changes only along available ->
\* accepted -> picked -> enroute -> delivered; an accept on a mission that is
\* not available, and a status update by the owner that is not the next step,
\* is rejected and leaves the missions as they are.
C11_MissionFollowsTable ==
  [][/\ \A m \in DOMAIN missions :
          missions'[m].status # missions[m].status
          => <<missions[m].status, missions'[m].status>> \in MissionTransitions
     /\ \A m \in DOMAIN missions, user \in Couriers :
          (AcceptTaken(m, user) /\ missions[m].status # "available")
          => (response'.code = 400 /\ req' = req /\ missions' = missions)
     /\ \A m \in DOMAIN missions, user \in Couriers, status \in MissionStatuses :
          (PatchMissionTaken(m, user, status)
           /\ missions[m].courierUserId = user
           /\ <<missions[m].status, status>> \notin MissionTransitions)
          => (response'.code = 400 /\ req' = req /\ missions' = missions)]_vars

\* C12: a mission status update asked by a courier who is not the stored
\* courierUserId of the mission, a mission nobody has accepted included, is
\* answered 403 and changes no mission, order or Transaction.
C12_ForeignCourierForbidden ==
  [][\A m \in DOMAIN missions, user \in Couriers, status \in MissionStatuses :
       (PatchMissionTaken(m, user, status) /\ missions[m].courierUserId # user)
       => /\ response'.code = 403
          /\ req' = req
          /\ missions' = missions
          /\ orders' = orders
          /\ transactions' = transactions]_vars

\* The update of a courier has just been answered 403 on a mission that
\* another courier owns.
C12_Witness ==
  /\ response.op = "patchMission"
  /\ response.code = 403
  /\ response.id \in DOMAIN missions
  /\ missions[response.id].courierUserId \in Couriers \ {response.user}

\* The unit price the specification gives a requested line: the override
\* when one is supplied and is strictly greater than the catalog price.
EffectivePrice(line) ==
  IF line.customPrice # 0 /\ line.customPrice > Dishes[line.dishId].price
  THEN line.customPrice
  ELSE Dishes[line.dishId].price

\* The unit price a stored line is billed at: customPrice when it is set.
StoredPrice(item) == IF item.customPrice # 0 THEN item.customPrice ELSE item.price

RECURSIVE BilledSum(_)
BilledSum(items) ==
  IF items = <<>> THEN 0
  ELSE StoredPrice(Head(items)) * Head(items).qty + BilledSum(Tail(items))

RECURSIVE CatalogSum(_)
CatalogSum(items) ==
  IF items = <<>> THEN 0
  ELSE Dishes[Head(items).dishId].price * Head(items).qty
       + CatalogSum(Tail(items))

\* Every line of the order createOrder builds from a request keeps the
\* catalog price and the quantity, and is billed at the price the
\* specification gives it.
LinesBilledByRule ==
  \A b \in PriceInputs : \A i \in DOMAIN b.items :
    /\ StoredPrice(newOrder(b).items[i]) = EffectivePrice(b.items[i])
    /\ newOrder(b).items[i].price = Dishes[b.items[i].dishId].price
    /\ newOrder(b).items[i].qty = b.items[i].qty

\* C13: every line of the order createOrder builds from a request is billed
\* at the catalog price unless its override is strictly greater, and every
\* stored order has subtotal = sum of billed price * qty, never below the sum
\* of catalog price * qty.
C13_NoPriceUndercut ==
  /\ LinesBilledByRule
  /\ \A o \in DOMAIN orders :
       /\ orders[o].subtotal = BilledSum(orders[o].items)
       /\ orders[o].subtotal >= CatalogSum(orders[o].items)

\* Two orders are stored, one with a line billed above the catalog price and
\* one billed at the catalog price throughout.
C13_Witness ==
  /\ \E o \in DOMAIN orders : \E i \in DOMAIN orders[o].items :
       orders[o].items[i].customPrice > orders[o].items[i].price
  /\ \E o \in DOMAIN orders : \A i \in DOMAIN orders[o].items :
       orders[o].items[i].customPrice = 0

\* C14: a createOrder call that validation refuses is answered 400 or 404,
\* never 5xx, and 404 when its customer does not exist; it persists no order
\* and no Transaction.
C14_ValidationAnswers4xx ==
  [][(Quiet /\ req' = req /\ response'.op = "createOrder" /\ response'.id = 0)
     => /\ response'.code \in {400, 404}
        /\ response'.user \notin Customers \cup {NoUser} => response'.code = 404
        /\ orders' = orders
        /\ transactions' = transactions]_vars

\* The initial merchant Transactions stored for order o: amount = subtotal,
\* netAmount = subtotal, status pending.
InitialTransactions(o) ==
  {t \in DOMAIN transactions :
     /\ transactions[t].orderId = o
     /\ transactions[t].beneficiary = "merchant"
     /\ transactions[t].amount = orders[o].subtotal
     /\ transactions[t].netAmount = orders[o].subtotal
     /\ transactions[t].status = "pending"}

\* C15: order creation is all or nothing: in every reachable state, after a
\* failure of the write included, every stored order has its lines and its
\* one initial merchant Transaction, and every Transaction belongs to a
\* stored order.
C15_CreationAllOrNothing ==
  /\ \A o \in DOMAIN orders :
       /\ orders[o].items # <<>>
       /\ Cardinality(InitialTransactions(o)) = 1
  /\ \A t \in DOMAIN transactions : transactions[t].orderId \in DOMAIN orders

\* The write of a createOrder call has just failed, beside an order that
\* is stored.
C15_Witness ==
  /\ response.op = "createOrder"
  /\ response.code = 500
  /\ response.id = 0
  /\ orders # <<>>

\* C16: when a step of createOrder after the commit fails, createOrder still
\* returns the created order (201), and the order, its lines and its
\* merchant Transaction stay persisted: every createOrder call that has
\* committed goes on or ends with 201 for its order, and no step removes or
\* rewrites a stored line or Transaction.
C16_PostCommitFailureKeepsOrder ==
  [][/\ Len(orders') > Len(orders)
        => \/ /\ response'.op = "createOrder"
              /\ response'.code = 201
              /\ response'.id = Len(orders')
           \/ \E r \in Reqs :
                /\ Free(r)
                /\ req'[r].op = "createOrder"
                /\ req'[r].id = Len(orders')
     /\ \A r \in Reqs :
          (req[r].op = "createOrder" /\ req'[r].pc = "idle")
          => (response'.code = 201 /\ response'.id = req[r].id)
     /\ \A o \in DOMAIN orders :
          /\ o \in DOMAIN orders'
          /\ orders'[o].items = orders[o].items
     /\ \A t \in DOMAIN transactions :
          /\ t \in DOMAIN transactions'
          /\ transactions'[t] = transactions[t]]_vars

\* createOrder has returned an order whose voucher is marked used and whose
\* discount was never written: the update of the order failed.
C16_Witness ==
  /\ response.op = "createOrder"
  /\ response.code = 201
  /\ response.id \in DOMAIN orders
  /\ orders[response.id].discount = 0
  /\ \E c \in DOMAIN vouchers :
       vouchers[c].status = "used" /\ vouchers[c].usedOnOrderId = response.id

\* C17: with the createOrder calls one after the other, the application of a
\* voucher that is already used fails and changes no order and no voucher,
\* an order other than the one the voucher was used on has no discount from
\* it, and a discount once written, and its total, never change.
C17_VoucherSingleUse ==
  [][/\ \A r \in Reqs :
          (req[r].op = "createOrder" /\ req[r].pc = "voucher_find"
           /\ req'[r] # req[r] /\ req[r].arg \in DOMAIN vouchers
           /\ vouchers[req[r].arg].status = "used")
          => /\ req'[r].pc = "idle"
             /\ response'.code = 201
             /\ orders' = orders
             /\ vouchers' = vouchers
     /\ \A o \in DOMAIN orders' : \A c \in DOMAIN vouchers :
          (orders'[o].voucherUsed = c /\ vouchers'[c].status = "used"
           /\ vouchers'[c].usedOnOrderId # o)
          => orders'[o].discount = 0
     /\ \A o \in DOMAIN orders :
          orders[o].discount # 0
          => /\ orders'[o].discount = orders[o].discount
             /\ orders'[o].total = orders[o].total]_vars

\* The second createOrder call of a customer with the same voucher has
\* returned: the first order carries the discount, the second none.
C17_Witness ==
  /\ response.op = "createOrder"
  /\ response.code = 201
  /\ response.id = 2
  /\ Len(orders) >= 2
  /\ orders[1].discount > 0
  /\ orders[2].voucherUsed = orders[1].voucherUsed
  /\ orders[2].customerUserId = orders[1].customerUserId
  /\ orders[2].discount = 0
  /\ orders[2].total = orders[2].subtotal + orders[2].serviceFee
                       + orders[2].deliveryFee
\* The off-campus fee of a distance as the fee rule states it: the minimum
\* fee, or the rate times the distance, which is at least 1 km.
ClaimedOffCampusFee(km) ==
  LET dist == IF km = <<>> \/ km[1] <= 0 \/ km[1] < km[2] THEN <<1, 1>> ELSE km
      rate == IF settings["OFF_CAMPUS_RATE_PER_KM"] = <<>> THEN 500
              ELSE settings["OFF_CAMPUS_RATE_PER_KM"][1]
      min == IF settings["OFF_CAMPUS_MIN_FEE"] = <<>> THEN 2000
             ELSE settings["OFF_CAMPUS_MIN_FEE"][1]
      distFee == (2 * dist[1] * rate + dist[2]) \div (2 * dist[2])
  IN  IF min >= distFee THEN min ELSE distFee

\* C18: the delivery fee of an off-campus order that createOrder stores, and
\* the delivery fee that a pricing preview outside the free trial answers for
\* off-campus, are max(OFF_CAMPUS_MIN_FEE, round(max(distanceKm, 1) *
\* OFF_CAMPUS_RATE_PER_KM)) under the settings in force, so at least
\* OFF_CAMPUS_MIN_FEE.
C18_OffCampusFeeRule ==
  [][/\ (Len(orders') > Len(orders)
         /\ orders'[Len(orders')].deliveryMethod = "offcampus")
        => orders'[Len(orders')].deliveryFee
             = ClaimedOffCampusFee(orders'[Len(orders')].estimatedDistanceKm)
     /\ (response = NoResponse /\ response'.op = "pricing" /\ response'.code = 200
         /\ response'.arg.method = "offcampus" /\ ~response'.body.isFreeTrial)
        => response'.body.deliveryFee = ClaimedOffCampusFee(response'.arg.km)]_vars

\* C19: an order in pending_confirmation is not among the orders that the
\* merchant's listing returns, and no notification or SMS about it goes to
\* the restaurant's owner.
C19_PendingOrderUnknownToMerchant ==
  /\ (response.op = "listOrders" /\ response.code = 200)
     => \A o \in response.body : orders[o].status # "pending_confirmation"
  /\ \A m \in outbox :
       m.role = "merchant" => orders[m.orderId].status # "pending_confirmation"

\* C20: whatever callback a provider's webhook is given, the answer is the
\* success acknowledgement (HTTP 200).
C20_WebhooksAcknowledge ==
  response.op \in {"stripeWebhook", "labyrintheWebhook", "mokoWebhook"}
    => response.code = 200

\* The succeeded Payments of Labyrinthe for an order number.
LabyrinthePayments(orderNumber) ==
  {i \in DOMAIN payments :
     /\ payments[i].provider = "labyrinthe"
     /\ payments[i].providerRef = orderNumber
     /\ payments[i].status = "succeeded"}

\* C21: a cart staged once yields at most one Order and at most one succeeded
\* Payment, however often and however concurrently its success callback is
\* delivered.
C21_StagedCartOneOrder ==
  /\ Len(orders) <= 1
  /\ \A n \in OrderNumbers : Cardinality(LabyrinthePayments(n)) <= 1

\* The orders a customer has placed.
PlacedOrders(user) ==
  Cardinality({o \in DOMAIN orders : orders[o].customerUserId = user})

\* The fees of a method and distance under the settings in force.
ClaimedFees(method, km) ==
  [serviceFee |-> IF settings["SERVICE_FEE"] = <<>> THEN 1000
                  ELSE settings["SERVICE_FEE"][1],
   deliveryFee |-> IF method = "pickup" THEN 0
                   ELSE IF method = "campus"
                   THEN (IF settings["CAMPUS_DELIVERY_FEE"] = <<>> THEN 1000
                         ELSE settings["CAMPUS_DELIVERY_FEE"][1])
                   ELSE ClaimedOffCampusFee(km)]

\* C22: the pricing preview answers serviceFee 0 and deliveryFee 0 exactly to
\* an authenticated customer with fewer than 3 orders placed; to a customer
\* with 3 or more, and without authentication, it answers SERVICE_FEE and the
\* delivery fee of the method.
C22_FreeTrialPreview ==
  (response.op = "pricing" /\ response.code = 200)
  => LET free == response.user # NoUser /\ PlacedOrders(response.user) < 3
         fees == ClaimedFees(response.arg.method, response.arg.km)
     IN  /\ response.body.isFreeTrial = free
         /\ response.body.serviceFee = (IF free THEN 0 ELSE fees.serviceFee)
         /\ response.body.deliveryFee = (IF free THEN 0 ELSE fees.deliveryFee)

\* A preview for a customer who has placed 3 orders is answered with fees.
C22_Witness ==
  /\ response.op = "pricing" /\ response.code = 200
  /\ response.user # NoUser /\ PlacedOrders(response.user) >= 3
  /\ response.arg.method = "offcampus"
  /\ response.body.deliveryFee > 0

\* The orders that carry a discount from voucher c.
DiscountedBy(c) ==
  {o \in DOMAIN orders : orders[o].voucherUsed = c /\ orders[o].discount > 0}

\* C23: when createOrder calls apply the same voucher concurrently, at most
\* one order receives a discount from it, and the voucher's usedOnOrderId
\* names that order.
C23_VoucherOneDiscountInRace ==
  \A c \in DOMAIN vouchers :
    /\ Cardinality(DiscountedBy(c)) <= 1
    /\ \A o \in DiscountedBy(c) : vouchers[c].usedOnOrderId = o

\* C24: a createOrder call whose body passes validation is given a code that
\* no stored order has, whenever it is made: it is answered 201 with the
\* order it created, never with an error of the unique index on the code.
C24_OrderCodeFresh ==
  /\ response.op = "createOrder"
     => (response.code = 201 /\ response.id \in DOMAIN orders)
  /\ \A o1, o2 \in DOMAIN orders : o1 # o2 => orders[o1].code # orders[o2].code

\* C25: once no createOrder call is running, a promo code with n recorded
\* usages holds n points and has earned its owner floor(n / 10) vouchers.
C25_PromoPointsCountUsages ==
  (\A r \in Reqs : Free(r))
    => \A c \in DOMAIN promo :
         /\ promo[c].points = promo[c].usages
         /\ promo[c].minted = promo[c].usages \div POINTS_FOR_VOUCHER

\* The voucher of code c passes every check of its application by user u.
Applicable(c, u) ==
  /\ c \in DOMAIN vouchers
  /\ vouchers[c].status = "active"
  /\ (vouchers[c].ownerUserId = u \/ vouchers[c].sharedToUserId = u)
  /\ ~vouchers[c].expired

\* The voucher of code c fails its application by user u on the expiry check.
FailsOnExpiry(c, u) ==
  /\ c \in DOMAIN vouchers
  /\ vouchers[c].status = "active"
  /\ (vouchers[c].ownerUserId = u \/ vouchers[c].sharedToUserId = u)
  /\ vouchers[c].expired

C27_OneMissionInRace ==
  \A o \in DOMAIN orders :
    Cardinality({m \in DOMAIN missions : missions[m].orderId = o}) <= 1

\* C28: a Payment whose status is succeeded is never changed to failed.
C28_SucceededNeverFails ==
  [][\A i \in DOMAIN payments :
       payments[i].status = "succeeded" => payments'[i].status # "failed"]_vars

\* C29: every Transaction has netAmount = amount - commission.
C29_NetAmountIsAmountLessCommission ==
  \A t \in DOMAIN transactions :
    transactions[t].netAmount
      = transactions[t].amount - transactions[t].commission


\* The order of createOrder is delivered and settled: its merchant
\* Transaction, written with the order, and its courier Transaction, written
\* by the settlement, are both there, and the courier is paid.
C29_Witness ==
  \E m, c \in DOMAIN transactions :
    /\ transactions[m].beneficiary = "merchant"
    /\ transactions[m].commission = 0
    /\ transactions[m].amount = orders[transactions[m].orderId].subtotal
    /\ transactions[c].beneficiary = "courier"
    /\ transactions[c].orderId = transactions[m].orderId
    /\ transactions[c].amount = MissionEarning
    /\ transactions[c].status = "paid"
    /\ orders[transactions[m].orderId].status = "delivered"

\* The merchant Transactions of order o.
MerchantTransactions(o) ==
  {t \in DOMAIN transactions :
     transactions[t].orderId = o /\ transactions[t].beneficiary = "merchant"}

\* C30: an order of createOrder has one merchant Transaction, written with
\* the order, with amount = subtotal, commission = 0 and netAmount =
\* subtotal; no later step writes another one, and the only change made to
\* it is mark-paid setting its status to paid.
C30_MerchantTransactionKept ==
  [][/\ \A o \in DOMAIN orders :
          /\ Cardinality(MerchantTransactions(o)) = 1
          /\ \A t \in MerchantTransactions(o) :
               /\ transactions[t].amount = orders[o].subtotal
               /\ transactions[t].commission = 0
               /\ transactions[t].netAmount = orders[o].subtotal
               /\ \/ transactions'[t] = transactions[t]
                  \/ /\ transactions'[t] = [transactions[t] EXCEPT !.status = "paid"]
                     /\ response'.op = "markPaid"
                     /\ response'.id = t
     /\ \A t \in DOMAIN transactions' \ DOMAIN transactions :
          transactions'[t].beneficiary = "merchant"
          => /\ Len(orders') = Len(orders) + 1
             /\ transactions'[t].orderId = Len(orders')
             /\ transactions'[t].amount = orders'[Len(orders')].subtotal
             /\ transactions'[t].commission = 0
             /\ transactions'[t].netAmount = orders'[Len(orders')].subtotal
             /\ transactions'[t].status = "pending"]_vars

\* The order is delivered and settled, the courier Transaction written by
\* the settlement, and the merchant Transaction written with the order is
\* paid.
C30_Witness ==
  \E o \in DOMAIN orders :
    /\ orders[o].status = "delivered"
    /\ \E c \in DOMAIN transactions :
         transactions[c].orderId = o /\ transactions[c].beneficiary = "courier"
    /\ \E t \in MerchantTransactions(o) :
         /\ transactions[t].status = "paid"
         /\ transactions[t].amount = orders[o].subtotal
    /\ \A r \in Reqs : Free(r)

====
